---- MODULE Spec2Model ----
(***************************************************************************)
(* Release synchronisation and repackaging engine of MCPPlugin             *)
(* (src/src/plugin_repo_manager.cpp, class PluginRepoManager).             *)
(*                                                                         *)
(* Strings of the program are sequences of one-character strings, so that  *)
(* sanitizeFilename, isPluginAsset and the path-length guards are computed *)
(* on characters and lengths as the code computes them.                    *)
(***************************************************************************)
EXTENDS Integers, Sequences, FiniteSets, TLC

\* ------------------------------------------------------------------------
\* Characters and strings
\* ------------------------------------------------------------------------
LowerChars ==
  {"a","b","c","d","e","f","g","h","i","j","k","l","m",
   "n","o","p","q","r","s","t","u","v","w","x","y","z"}

UpperChars == {"P","S","V"}

DigitChars == {"0","1","2","3","4","5","6","7","8","9"}

\* std::isalnum in the "C" locale
isalnum(c) == c \in LowerChars \cup UpperChars \cup DigitChars

\* ::tolower on the upper-case letters the inputs use
tolower(c) ==
  CASE c = "P" -> "p"
    [] c = "S" -> "s"
    [] c = "V" -> "v"
    [] OTHER -> c

ToLowerStr(s) == [i \in 1..Len(s) |-> tolower(s[i])]

\* std::string::find(sub) != npos
Contains(s, sub) ==
  \E i \in 0..(Len(s) - Len(sub)) :
     \A j \in 1..Len(sub) : s[i + j] = sub[j]

\* std::string::find_last_of(c), 1-based; 0 when the character is absent
FindLastOf(s, c) ==
  IF \E i \in 1..Len(s) : s[i] = c
    THEN CHOOSE i \in 1..Len(s) : s[i] = c /\ \A k \in (i+1)..Len(s) : s[k] # c
    ELSE 0

\* ------------------------------------------------------------------------
\* Program constants
\* ------------------------------------------------------------------------
NameLimit == 255
\* MaxPath with the ceiling twice as high
MaxPath_Doubled == 260 + 260
\* lines 235, 357: the longest local_path an asset may have
MaxPath == 260
TagDirLimit == 200
ExtractDirLimit == 230
max_retries == 3

repo_dir_ == <<"p","l","u","g","i","n","_","r","e","p","o","/">>
\* UnnamedFile as a placeholder that is itself not a sanitized name
UnnamedFile_WithSeparator == <<"u","n","n","a","m","e","d","/","f","i","l","e">>

\* line 112: the placeholder
UnnamedFile == <<"u","n","n","a","m","e","d","_","f","i","l","e">>

\* ------------------------------------------------------------------------
\* sanitizeFilename
\* ------------------------------------------------------------------------
\* SanitizeChar with the path separators kept
SanitizeChar_KeepSeparators(c) ==
  IF isalnum(c) \/ c \in {".", "-", "_", " ", "/", "\\"} THEN c ELSE "_"

\* lines 77-91: one character of the input
SanitizeChar(c) ==
  IF isalnum(c) \/ c \in {".", "-", "_", " "} THEN c ELSE "_"

\* the truncation of lines 95-108; 255 - extension.length() is computed in
\* size_t, so an extension longer than 255 wraps to a huge limit and the
\* name is left as it is
TruncateName(safe) ==
  IF Len(safe) > NameLimit
    THEN LET dot == FindLastOf(safe, ".") IN
         IF dot > 1
           THEN LET extension == SubSeq(safe, dot, Len(safe))
                    name == SubSeq(safe, 1, dot - 1)
                IN  IF Len(extension) <= NameLimit
                         /\ Len(name) > NameLimit - Len(extension)
                      THEN SubSeq(name, 1, NameLimit - Len(extension)) \o extension
                      ELSE name \o extension
           ELSE SubSeq(safe, 1, NameLimit)
    ELSE safe

sanitizeFilename(filename) ==
  LET safe == TruncateName([i \in 1..Len(filename) |-> SanitizeChar(filename[i])])
  IN  IF safe = <<>> THEN UnnamedFile ELSE safe

\* ------------------------------------------------------------------------
\* String literals used by the code
\* ------------------------------------------------------------------------
S_plugin == <<"p","l","u","g","i","n">>
S_zip == <<".","z","i","p">>
S_server == <<"s","e","r","v","e","r">>
S_windows == <<"w","i","n","d","o","w","s">>
S_linux == <<"l","i","n","u","x">>
S_dll == <<".","d","l","l">>
S_so == <<".","s","o">>
S_tools_json == <<"_","t","o","o","l","s",".","j","s","o","n">>
S_temp_extract == <<"/","t","e","m","p","_","e","x","t","r","a","c","t">>
Slash == <<"/">>

\* ------------------------------------------------------------------------
\* isPluginAsset, getPlatformFromFileName
\* ------------------------------------------------------------------------
\* isPluginAsset accepting only the names that name a platform
isPluginAsset_PlatformOnly(asset_name) ==
  LET lower_name == ToLowerStr(asset_name) IN
  /\ Contains(lower_name, S_plugin)
  /\ Contains(lower_name, S_zip)
  /\ ~Contains(lower_name, S_server)
  /\ \/ Contains(lower_name, S_windows)
     \/ Contains(lower_name, S_linux)

\* lines 1000-1021
isPluginAsset(asset_name) ==
  LET lower_name == ToLowerStr(asset_name) IN
  /\ Contains(lower_name, S_plugin)
  /\ Contains(lower_name, S_zip)
  /\ ~Contains(lower_name, S_server)
  /\ \/ Contains(lower_name, S_windows)
     \/ Contains(lower_name, S_linux)
     \/ (~Contains(lower_name, S_windows) /\ ~Contains(lower_name, S_linux))

getPlatformFromFileName(filename) ==
  LET lower_filename == ToLowerStr(filename) IN
  IF Contains(lower_filename, S_windows) \/ Contains(lower_filename, S_dll)
    THEN "Windows"
  ELSE IF Contains(lower_filename, S_linux) \/ Contains(lower_filename, S_so)
    THEN "Linux"
  ELSE "Unknown"

\* ------------------------------------------------------------------------
\* fs::path::extension / stem of a file name without directories
\* ------------------------------------------------------------------------
PathExtension(filename) ==
  LET dot == FindLastOf(filename, ".") IN
  IF dot > 1 /\ filename # <<".", ".">>
    THEN SubSeq(filename, dot, Len(filename))
    ELSE <<>>

PathStem(filename) ==
  SubSeq(filename, 1, Len(filename) - Len(PathExtension(filename)))

\* ------------------------------------------------------------------------
\* Records: ReleaseAsset, PluginPackageInfo, TagInfo (plugin_repo_manager.h)
\* plugin_packages is a std::map: a function from plugin ids to records.
\* ------------------------------------------------------------------------
NoPackages == <<>>

IsProcessed(tag_info) == DOMAIN tag_info.plugin_packages # {}

\* ------------------------------------------------------------------------
\* The hosting API: the release lists it can answer with.  A release is the
\* JSON object {tag_name, name, published_at, assets:[{name,
\* browser_download_url}]}; an absent string field reads as "".
\* ------------------------------------------------------------------------
T_v1 == <<"v","1">>
T_v2raw == <<"v","/","2">>
T_v_2 == <<"v","_","2">>
T_v2back == <<"v","\\","2">>
LongTagLen == 189
T_long == [i \in 1..LongTagLen |-> "x"]

\* a name whose part from the last '.' on is longer than 255 characters
LongExtLen == 256
T_longext == <<"a", ".">> \o [i \in 1..LongExtLen |-> "b"]
\* a name longer than the limit whose extension is short: it is truncated
LongStemLen == 254
T_longstem == [i \in 1..LongStemLen |-> "y"] \o S_zip

A_plugin == <<"p","l","u","g","i","n",".","z","i","p">>
A_Plugin2 == <<"P","l","u","g","i","n","2",".","z","i","p">>
A_server == <<"p","l","u","g","i","n","-","s","e","r","v","e","r",".","z","i","p">>
A_winplugin == <<"p","l","u","g","i","n","-","w","i","n","d","o","w","s",".","z","i","p">>
A_notes == <<"n","o","t","e","s",".","z","i","p">>
\* a plugin archive whose name is so long that its local_path under
\* plugin_repo/v1/ is longer than MAX_PATH
LongAssetLen == 245
A_longname == S_plugin \o [i \in 1..LongAssetLen |-> "q"] \o S_zip

Rel(tag, date, assets) ==
  [tag_name |-> tag, name |-> tag, published_at |-> date, assets |-> assets]

AssetJ(name, url) == [name |-> name, browser_download_url |-> url]

Feed1 == << Rel(T_v1, "d1", <<AssetJ(A_plugin, "uA"), AssetJ(A_longname, "uL"),
                              AssetJ(A_Plugin2, "uB")>>) >>

Feed2 == << Rel(T_v2raw, "d1", <<AssetJ(A_plugin, "uA")>>),
            Rel(T_v_2, "d2", <<AssetJ(A_Plugin2, "uC"), AssetJ(A_server, "uA")>>) >>

Feed3 == << Rel(T_v1, "d2", <<AssetJ(A_plugin, "uB")>>),
            Rel(T_long, "d1", <<AssetJ(A_plugin, "uA"), AssetJ(A_winplugin, "uB"),
                                AssetJ(A_notes, "uC")>>),
            Rel(<<>>, "d1", <<>>) >>

Feeds == {Feed1, Feed2, Feed3}

\* what one GET of the releases endpoint can end in: no response, a status
\* other than 200, a 200 whose body is not JSON, a 200 with a release list
ApiResponses ==
  {[kind |-> "neterr"], [kind |-> "status"], [kind |-> "malformed"]}
  \cup {[kind |-> "ok", body |-> f] : f \in Feeds}

\* ------------------------------------------------------------------------
\* parseGitHubURL on the URLs the program is given
\* ------------------------------------------------------------------------
GoodURL == "https://github.com/acme/widgets.git"
BadURL == "https://example.org/acme"
URLs == {GoodURL, BadURL}

parseGitHubURL(url) ==
  IF url = GoodURL
    THEN << <<"a","c","m","e">>, <<"w","i","d","g","e","t","s">> >>
    ELSE << <<>>, <<>> >>

\* ------------------------------------------------------------------------
\* fetchAllReleases: the TagInfo list built from one API response, or
\* "nullopt"
\* ------------------------------------------------------------------------
AssetOfJson(tag_name, asset_json) ==
  LET name == sanitizeFilename(asset_json.name) IN
  [name |-> name,
   download_url |-> asset_json.browser_download_url,
   local_path |-> repo_dir_ \o tag_name \o Slash \o name,
   platform |-> getPlatformFromFileName(name)]

KeepAsset(asset) ==
  isPluginAsset(asset.name) /\ ~(Len(asset.local_path) > MaxPath)

TagOfRelease(release_json) ==
  LET tag_name == sanitizeFilename(release_json.tag_name) IN
  [tag_name |-> tag_name,
   name |-> sanitizeFilename(release_json.name),
   published_at |-> release_json.published_at,
   assets |-> SelectSeq([i \in 1..Len(release_json.assets) |->
                           AssetOfJson(tag_name, release_json.assets[i])],
                        KeepAsset),
   plugin_packages |-> NoPackages]

HasTagName(tag_info) == tag_info.tag_name # <<>>

None == <<>>
Some(v) == <<v>>

ApiPathLimit == 200
S_repos == <<"/","r","e","p","o","s","/">>
S_releases == <<"/","r","e","l","e","a","s","e","s">>

\* fetchAllReleases answering a failure with an empty list
fetchAllReleases_EmptyOnFailure(url, response) ==
  IF response.kind # "ok" \/ url # GoodURL THEN Some(<<>>)
  ELSE Some(SelectSeq([i \in 1..Len(response.body) |->
                         TagOfRelease(response.body[i])],
                      HasTagName))

\* lines 162-253
fetchAllReleases(url, response) ==
  LET owner == parseGitHubURL(url)[1]
      repo == parseGitHubURL(url)[2]
      safe_owner == sanitizeFilename(owner)
      safe_repo == sanitizeFilename(repo)
      path == S_repos \o safe_owner \o Slash \o safe_repo \o S_releases
  IN  IF owner = <<>> \/ repo = <<>> THEN None
      ELSE IF safe_owner = <<>> \/ safe_repo = <<>> THEN None
      ELSE IF Len(path) > ApiPathLimit THEN None
      ELSE IF response.kind # "ok" THEN None
      ELSE Some(SelectSeq([i \in 1..Len(response.body) |->
                             TagOfRelease(response.body[i])],
                          HasTagName))

\* ------------------------------------------------------------------------
\* Persisted tag files plugin_repo/<tag>.json.  A file is
\* [valid |-> FALSE] (not parseable as JSON) or [valid |-> TRUE, json |-> d].
\* ------------------------------------------------------------------------
S_dot_json == <<".","j","s","o","n">>

TagFilePath(safe_tag_name) == repo_dir_ \o safe_tag_name \o S_dot_json

PlatformName(platform) ==
  IF platform = "Windows" THEN "windows"
  ELSE IF platform = "Linux" THEN "linux" ELSE "unknown"

PlatformOfName(platform) ==
  IF platform = "windows" THEN "Windows"
  ELSE IF platform = "linux" THEN "Linux" ELSE "Unknown"

NonEmptyName(x) == x.name # <<>>

SaveAsset(asset) ==
  [name |-> sanitizeFilename(asset.name),
   download_url |-> asset.download_url,
   local_path |-> sanitizeFilename(asset.local_path),
   platform |-> PlatformName(asset.platform)]

SavePlugin(safe_plugin_id, plugin) ==
  [id |-> safe_plugin_id,
   name |-> sanitizeFilename(plugin.name),
   tag_name |-> sanitizeFilename(plugin.tag_name),
   local_path |-> sanitizeFilename(plugin.local_path)]

\* the source key of a sanitized key of a std::map / JSON object
KeyOf(packages, s) == CHOOSE k \in DOMAIN packages : sanitizeFilename(k) = s

\* lines 859-881: the plugin_packages object, under sanitized ids
SavePackages(packages) ==
  [s \in {sanitizeFilename(k) : k \in DOMAIN packages} |->
     SavePlugin(s, packages[KeyOf(packages, s)])]

\* the JSON document saveTagInfo writes
TagJson(tag_info) ==
  [tag_name |-> sanitizeFilename(tag_info.tag_name),
   name |-> sanitizeFilename(tag_info.name),
   published_at |-> tag_info.published_at,
   assets |-> SelectSeq([i \in 1..Len(tag_info.assets) |-> SaveAsset(tag_info.assets[i])],
                        NonEmptyName),
   plugin_packages |-> SavePackages(tag_info.plugin_packages)]

\* saveTagInfo: the tag files after the call; opened says whether the
\* std::ofstream could be opened
saveTagInfo(files, tag_info, opened) ==
  LET safe_tag_name == sanitizeFilename(tag_info.tag_name) IN
  IF safe_tag_name = <<>> THEN files
  ELSE IF Len(TagFilePath(safe_tag_name)) > MaxPath THEN files
  ELSE IF ~opened THEN files
  ELSE [k \in DOMAIN files \cup {safe_tag_name} |->
          IF k = safe_tag_name
            THEN [valid |-> TRUE, json |-> TagJson(tag_info)]
            ELSE files[k]]

LoadAsset(asset_json) ==
  [name |-> sanitizeFilename(asset_json.name),
   download_url |-> asset_json.download_url,
   local_path |-> sanitizeFilename(asset_json.local_path),
   platform |-> PlatformOfName(asset_json.platform)]

LoadPlugin(plugin_id, plugin_json) ==
  [id |-> plugin_id,
   name |-> sanitizeFilename(plugin_json.name),
   tag_name |-> sanitizeFilename(plugin_json.tag_name),
   local_path |-> sanitizeFilename(plugin_json.local_path)]

\* lines 959-991: the plugin_packages map, under sanitized ids
LoadPackages(packages) ==
  [s \in {sanitizeFilename(k) : k \in DOMAIN packages} |->
     LoadPlugin(s, packages[KeyOf(packages, s)])]

loadTagInfo(files, tag_name) ==
  LET safe_tag_name == sanitizeFilename(tag_name) IN
  IF safe_tag_name = <<>> THEN None
  ELSE IF Len(TagFilePath(safe_tag_name)) > MaxPath THEN None
  ELSE IF safe_tag_name \notin DOMAIN files THEN None
  ELSE IF ~files[safe_tag_name].valid THEN None
  ELSE LET j == files[safe_tag_name].json IN
       Some([tag_name |-> sanitizeFilename(j.tag_name),
             name |-> sanitizeFilename(j.name),
             published_at |-> j.published_at,
             assets |-> SelectSeq([i \in 1..Len(j.assets) |-> LoadAsset(j.assets[i])],
                                  NonEmptyName),
             plugin_packages |-> LoadPackages(j.plugin_packages)])

\* ------------------------------------------------------------------------
\* Release archives: what the asset URLs serve and what a zip file on disk
\* holds.  An archive is the sequence of its entry names; "partial" is a
\* file that is open for writing, which miniz cannot open as a zip.
\* ------------------------------------------------------------------------
E_w_dll == <<"w",".","d","l","l">>
E_w_tools == <<"w","_","t","o","o","l","s",".","j","s","o","n">>
E_p_so == <<"p",".","s","o">>
E_p_tools == <<"p","_","t","o","o","l","s",".","j","s","o","n">>
E_readme == <<"d","/","r",".","t","x","t">>
\* an entry whose path under any temp_extract directory is longer than
\* MAX_PATH
LongEntryLen == 240
E_longentry == [i \in 1..LongEntryLen |-> "e"] \o S_dll

ArchiveEntries(body) ==
  CASE body = "uA" -> <<E_w_dll, E_w_tools>>
    [] body = "uB" -> <<E_p_so, E_readme>>
    [] body = "uC" -> <<E_p_so, E_p_tools, E_longentry>>
    [] OTHER -> <<>>

IsZip(body) == body \in {"uA", "uB", "uC"}

\* outcomes of one asset GET: no response, or a status
HttpOutcomes == {"neterr", "200", "404", "503"}

\* ------------------------------------------------------------------------
\* State
\* ------------------------------------------------------------------------
VARIABLES
  plugin_repo_url_,   \* "" until setPluginRepoURL
  tags_,              \* std::map<std::string, TagInfo>
  mutex_,             \* "free" or the thread holding mutex_
  tagFiles,           \* disk: plugin_repo/<tag>.json, by sanitized tag name
  assetFiles,         \* disk: downloaded assets, local_path -> body; the version file
  scratch,            \* disk: temp_extract directories -> their file names
  packages,           \* disk: repackaged bundles
  frame,              \* per thread: the call it executes and its locals
  stack,              \* per thread: the calls below that one, innermost first
  stop_flag_,         \* std::atomic<bool>
  scan_interval_,     \* int
  periodic_thread_,   \* std::thread: None, or Some(w) when joinable
  terminated,         \* std::terminate was called
  hist                \* history: calls made, the last reconcile

vars == <<plugin_repo_url_, tags_, mutex_, tagFiles, assetFiles, scratch,
          packages, frame, stack, stop_flag_, scan_interval_,
          periodic_thread_, terminated, hist>>

\* the variables of the periodic scan
schedVars == <<stop_flag_, scan_interval_, periodic_thread_, terminated>>

\* threads of the HTTP server (or of any other caller of the public API)
Threads == {"t1", "t2"}

\* threads started by startPeriodicScan
Workers == {"w1", "w2"}

AllThreads == Threads \cup Workers

\* startPeriodicScan(900) of the constructor, the default of the header
ConstructorInterval == 900
DefaultInterval == 60

\* calls made in one behaviour
MaxCalls == 3

\* calls of startPeriodicScan and stopPeriodicScan made in one behaviour
MaxScanCalls == 2

IdleFrame == [op |-> "idle", pc |-> "idle"]

Put(m, k, v) == [x \in DOMAIN m \cup {k} |-> IF x = k THEN v ELSE m[x]]

Remove(m, k) == [x \in DOMAIN m \ {k} |-> m[x]]

SetFrame(p, f) == frame' = [frame EXCEPT ![p] = f]

\* ------------------------------------------------------------------------
\* Files found in plugin_repo/ when the process starts
\* ------------------------------------------------------------------------
PkgId == <<"a","c","m","e","_","w">>

StoredPlugin(tag) ==
  [id |-> PkgId, name |-> <<"w">>, tag_name |-> tag,
   local_path |-> repo_dir_ \o tag \o <<"/","w",".","z","i","p">>]

StoredAsset(tag, name, url) ==
  [name |-> name, download_url |-> url,
   local_path |-> repo_dir_ \o tag \o Slash \o name, platform |-> "unknown"]

StoredDoc(tag, date, assets, pkgs) ==
  [valid |-> TRUE,
   json |-> [tag_name |-> tag, name |-> tag, published_at |-> date,
             assets |-> assets, plugin_packages |-> pkgs]]

NoFiles == <<>>

\* the thread of the lambda of lines 1027-1036, about to test stop_flag_
NewWorker == [op |-> "worker", pc |-> "while", i |-> 0]

\* the worker the constructor starts
FirstWorker == "w1"

InitialTagFiles ==
  { NoFiles,
    Put(NoFiles, T_v1,
        StoredDoc(T_v1, "d0", <<StoredAsset(T_v1, A_plugin, "uA")>>,
                  Put(NoPackages, PkgId, StoredPlugin(T_v1)))),
    Put(Put(NoFiles, T_v1, [valid |-> FALSE]), T_v_2,
        StoredDoc(<<"o","l","d">>, "d0", <<>>,
                  Put(NoPackages, PkgId, StoredPlugin(T_v_2)))) }

Init ==
  /\ plugin_repo_url_ = ""
  /\ tags_ = <<>>
  /\ mutex_ = "free"
  /\ tagFiles \in InitialTagFiles
  /\ assetFiles = <<>>
  /\ scratch = <<>>
  /\ packages = {}
  /\ frame = [p \in AllThreads |-> IdleFrame]
  /\ stack = [p \in AllThreads |->
                IF p = FirstWorker THEN <<NewWorker>> ELSE <<>>]
  /\ stop_flag_ = FALSE
  /\ scan_interval_ = ConstructorInterval
  /\ periodic_thread_ = Some(FirstWorker)
  /\ terminated = FALSE
  /\ hist = [calls |-> 0, recon |-> None,
             \* calls of startPeriodicScan and stopPeriodicScan made, scan
             \* cycles begun and ended, the processAllTags of the last cycle
             scanCalls |-> 0, cycles |-> 0, cyclesDone |-> 0, lastAll |-> None,
             \* since stop_flag_ was set with the worker in its sleep loop:
             \* sleep steps ended, and the cycles begun by then; the cycles
             \* begun when the last stopPeriodicScan returned
             sleepStop |-> None, stopped |-> None]

\* ------------------------------------------------------------------------
\* updateRepoInfo (reconcile)
\* ------------------------------------------------------------------------
\* MergeOne with the persisted record never consulted
MergeOne_IgnorePersisted(tags, tag, files) == Put(tags, tag.tag_name, tag)

\* one iteration of the loop of lines 273-284
MergeOne(tags, tag, files) ==
  LET existing_tag == loadTagInfo(files, tag.tag_name) IN
  IF existing_tag # None /\ IsProcessed(existing_tag[1])
    THEN Put(tags, tag.tag_name, existing_tag[1])
    ELSE Put(tags, tag.tag_name, tag)

RECURSIVE MergeLoop(_, _, _, _)
MergeLoop(tags, releases, files, i) ==
  IF i > Len(releases) THEN tags
  ELSE MergeLoop(MergeOne(tags, releases[i], files), releases, files, i + 1)

\* MergeTags without the clear(), the fetched assets appended to those of
\* the record already cached
MergeTags_Accumulate(old_tags, releases, files) ==
  LET fresh == MergeLoop(<<>>, releases, files, 1) IN
  [t \in DOMAIN fresh |->
     IF t \in DOMAIN old_tags
       THEN [fresh[t] EXCEPT !.assets = old_tags[t].assets \o @]
       ELSE fresh[t]]

\* tags_.clear() and the loop: the new tags_, given the old one
MergeTags(old_tags, releases, files) == MergeLoop(<<>>, releases, files, 1)

\* the thread runs no call of the manager
AtTopLevel(p) == frame[p].op = "idle" /\ stack[p] = <<>>

\* a direct call of updateRepoInfo (public, line 255)
UpdateRepoInfoCall(p) ==
  /\ ~terminated
  /\ AtTopLevel(p)
  /\ SetFrame(p, [op |-> "updateRepoInfo", pc |-> "ur_lock"])
  /\ hist' = [hist EXCEPT !.calls = @ + 1]
  /\ hist.calls < MaxCalls
  /\ UNCHANGED <<plugin_repo_url_, tags_, mutex_, tagFiles, assetFiles, scratch,
                 packages>>
  /\ UNCHANGED <<stack, schedVars>>

\* MutexAfterSetURL with updateRepoInfo called inside the scope of the
\* lock_guard
MutexAfterSetURL_Held(p) == p

\* lines 136-139: the scope of the lock_guard ends before updateRepoInfo
\* is called
MutexAfterSetURL(p) == "free"

\* setPluginRepoURL: store the URL under the lock, then updateRepoInfo
SetPluginRepoURL(p, url) ==
  /\ ~terminated
  /\ AtTopLevel(p)
  /\ mutex_ = "free"
  /\ plugin_repo_url_' = url
  /\ mutex_' = MutexAfterSetURL(p)
  /\ SetFrame(p, [op |-> "updateRepoInfo", pc |-> "ur_lock"])
  /\ hist' = [hist EXCEPT !.calls = @ + 1]
  /\ hist.calls < MaxCalls
  /\ UNCHANGED <<tags_, tagFiles, assetFiles, scratch, packages>>
  /\ UNCHANGED <<stack, schedVars>>

\* lines 256-261: take mutex_; without a URL return false
UpdateLock(p) ==
  /\ ~terminated
  /\ frame[p].pc = "ur_lock"
  /\ mutex_ = "free"
  /\ IF plugin_repo_url_ = ""
       THEN /\ SetFrame(p, [op |-> "updateRepoInfo", pc |-> "done", result |-> FALSE,
                            cause |-> "nourl", tags0 |-> tags_])
            /\ UNCHANGED mutex_
       ELSE /\ SetFrame(p, [op |-> "updateRepoInfo", pc |-> "ur_fetch",
                            tags0 |-> tags_])
            /\ mutex_' = p
  /\ UNCHANGED <<plugin_repo_url_, tags_, tagFiles, assetFiles, scratch, packages,
                 hist>>
  /\ UNCHANGED <<stack, schedVars>>

\* why fetchAllReleases cannot return a list for this URL and response:
\* "url" (lines 163-167), "neterr" (192-195), "status" (197-200),
\* "malformed" (248-251); "none" when it can
FetchFailure(url, response) ==
  IF parseGitHubURL(url)[1] = <<>> \/ parseGitHubURL(url)[2] = <<>> THEN "url"
  ELSE IF response.kind # "ok" THEN response.kind
  ELSE "none"

\* lines 263-267: fetchAllReleases with mutex_ held
UpdateFetch(p, response) ==
  /\ ~terminated
  /\ frame[p].pc = "ur_fetch"
  /\ LET releases_opt == fetchAllReleases(plugin_repo_url_, response) IN
     IF releases_opt = None
       THEN /\ SetFrame(p, [op |-> "updateRepoInfo", pc |-> "done", result |-> FALSE,
                            cause |-> FetchFailure(plugin_repo_url_, response),
                            tags0 |-> frame[p].tags0])
            /\ mutex_' = "free"
       ELSE /\ SetFrame(p, [op |-> "updateRepoInfo", pc |-> "ur_merge",
                            releases |-> releases_opt[1],
                            body |-> IF response.kind = "ok" THEN response.body
                                                               ELSE <<>>,
                            cause |-> FetchFailure(plugin_repo_url_, response),
                            tags0 |-> frame[p].tags0])
            /\ UNCHANGED mutex_
  /\ UNCHANGED <<plugin_repo_url_, tags_, tagFiles, assetFiles, scratch, packages,
                 hist>>
  /\ UNCHANGED <<stack, schedVars>>

\* lines 271-288: rebuild tags_, release mutex_, return true
UpdateMerge(p) ==
  /\ ~terminated
  /\ frame[p].pc = "ur_merge"
  /\ tags_' = MergeTags(tags_, frame[p].releases, tagFiles)
  /\ mutex_' = "free"
  /\ SetFrame(p, [op |-> "updateRepoInfo", pc |-> "done", result |-> TRUE,
                  releases |-> frame[p].releases, body |-> frame[p].body,
                  cause |-> frame[p].cause, prev |-> hist.recon])
  /\ hist' = [hist EXCEPT !.recon = Some([releases |-> frame[p].releases,
                                          files |-> tagFiles, tags |-> tags_'])]
  /\ UNCHANGED <<plugin_repo_url_, tagFiles, assetFiles, scratch, packages>>
  /\ UNCHANGED <<stack, schedVars>>

\* the call returns to its caller
Return(p) ==
  /\ ~terminated
  /\ frame[p].pc = "done"
  /\ stack[p] = <<>>
  /\ SetFrame(p, IdleFrame)
  /\ UNCHANGED <<plugin_repo_url_, tags_, mutex_, tagFiles, assetFiles, scratch,
                 packages, hist>>
  /\ UNCHANGED <<stack, schedVars>>

\* ------------------------------------------------------------------------
\* downloadAsset: one std::async task per asset
\* ------------------------------------------------------------------------
NewTask(asset) ==
  [asset |-> asset, attempt |-> 1, pc |-> "check", result |-> FALSE,
   wrote |-> FALSE,
   \* history of the task: its sleeps and requests in order, whether every
   \* response so far was a transient failure, whether a response was 404,
   \* whether an attempt began with the file present and what it held
   log |-> <<>>, transientOnly |-> TRUE, got404 |-> FALSE, sawFile |-> FALSE,
   seen |-> ""]

\* FileExists with the pre-check missing
FileExists_Never(files, path) == FALSE

\* line 476: fs::exists(asset.local_path)
FileExists(files, path) == path \in DOMAIN files

\* NoRetryStatus with a 404 retried like any other status
NoRetryStatus_None(outcome) == FALSE

\* line 562: a 404 ends the download
NoRetryStatus(outcome) == outcome = "404"

\* Continue with the loop bound off by one (attempt <= max_retries + 1)
Continue_OneMore(task) ==
  IF task.attempt + 1 <= max_retries + 1
    THEN [task EXCEPT !.attempt = @ + 1, !.pc = "check"]
    ELSE [task EXCEPT !.pc = "done", !.result = FALSE]

\* "continue" in the loop of line 468: the next attempt, or the failure of
\* line 597 once max_retries attempts were made
Continue(task) ==
  IF task.attempt + 1 <= max_retries
    THEN [task EXCEPT !.attempt = @ + 1, !.pc = "check"]
    ELSE [task EXCEPT !.pc = "done", !.result = FALSE]

\* the task's new state; completion keeps the order in which the tasks of
\* the call ended
SetTask(p, k, t) ==
  frame' = [frame EXCEPT ![p].tasks[k] = t,
                         ![p].completion = IF t.pc = "done" THEN Append(@, k)
                                                            ELSE @]

RunningTask(p, k) ==
  /\ frame[p].op = "processTag"
  /\ frame[p].pc = "wait"
  /\ k \in 1..Len(frame[p].tasks)

\* lines 469-479: the delay before a retry, then the existence pre-check
DownloadCheck(p, k) ==
  /\ ~terminated
  /\ RunningTask(p, k)
  /\ frame[p].tasks[k].pc = "check"
  /\ LET t == frame[p].tasks[k]
         present == t.asset.local_path \in DOMAIN assetFiles
         slept == [t EXCEPT
                     !.log = IF t.attempt > 1 THEN Append(@, "sleep") ELSE @,
                     !.sawFile = present,
                     !.seen = IF present THEN assetFiles[t.asset.local_path] ELSE @]
     IN  IF FileExists(assetFiles, t.asset.local_path)
           THEN SetTask(p, k, [slept EXCEPT !.pc = "done", !.result = TRUE])
           ELSE SetTask(p, k, [slept EXCEPT !.pc = "get"])
  /\ UNCHANGED <<plugin_repo_url_, tags_, mutex_, tagFiles, assetFiles, scratch,
                 packages, hist>>
  /\ UNCHANGED <<stack, schedVars>>

\* lines 525-573: the GET and what its outcome leads to
DownloadGet(p, k, outcome) ==
  /\ ~terminated
  /\ RunningTask(p, k)
  /\ frame[p].tasks[k].pc = "get"
  /\ LET t == [frame[p].tasks[k] EXCEPT
                 !.log = Append(@, "GET"),
                 !.transientOnly = @ /\ outcome \in {"neterr", "503"},
                 !.got404 = @ \/ outcome = "404"]
     IN  IF outcome = "neterr" THEN SetTask(p, k, Continue(t))
         ELSE IF outcome = "200" THEN SetTask(p, k, [t EXCEPT !.pc = "open"])
         ELSE IF NoRetryStatus(outcome)
           THEN SetTask(p, k, [t EXCEPT !.pc = "done", !.result = FALSE])
         ELSE SetTask(p, k, Continue(t))
  /\ UNCHANGED <<plugin_repo_url_, tags_, mutex_, tagFiles, assetFiles, scratch,
                 packages, hist>>
  /\ UNCHANGED <<stack, schedVars>>

\* lines 580-588: std::ofstream file(local_path): the file is created empty
DownloadOpen(p, k, opened) ==
  /\ ~terminated
  /\ RunningTask(p, k)
  /\ frame[p].tasks[k].pc = "open"
  /\ LET t == frame[p].tasks[k] IN
     IF opened
       THEN /\ assetFiles' = Put(assetFiles, t.asset.local_path, "partial")
            /\ SetTask(p, k, [t EXCEPT !.pc = "close"])
       ELSE /\ SetTask(p, k, Continue(t))
            /\ UNCHANGED assetFiles
  /\ UNCHANGED <<plugin_repo_url_, tags_, mutex_, tagFiles, scratch, packages,
                 hist>>
  /\ UNCHANGED <<stack, schedVars>>

\* lines 590-594: the body is written and the file closed
DownloadClose(p, k) ==
  /\ ~terminated
  /\ RunningTask(p, k)
  /\ frame[p].tasks[k].pc = "close"
  /\ LET t == frame[p].tasks[k] IN
     /\ assetFiles' = Put(assetFiles, t.asset.local_path, t.asset.download_url)
     /\ SetTask(p, k, [t EXCEPT !.pc = "done", !.result = TRUE, !.wrote = TRUE])
  /\ UNCHANGED <<plugin_repo_url_, tags_, mutex_, tagFiles, scratch, packages,
                 hist>>
  /\ UNCHANGED <<stack, schedVars>>

\* ------------------------------------------------------------------------
\* extractAsset: failed is the set of entries whose stat or extraction
\* fails; the result is the success flag and the files of extract_dir
\* ------------------------------------------------------------------------
\* ExtractedNames as all-or-nothing: one failing entry and no entry is
\* written
ExtractedNames_AllOrNothing(entries, extract_dir, failed) ==
  IF failed \cap (1..Len(entries)) # {} THEN {}
  ELSE { sanitizeFilename(entries[i]) :
           i \in { n \in 1..Len(entries) :
                     /\ sanitizeFilename(entries[n]) # <<>>
                     /\ ~(Len(extract_dir \o Slash \o sanitizeFilename(entries[n])) > MaxPath) } }

\* lines 626-663: the entries written to extract_dir
ExtractedNames(entries, extract_dir, failed) ==
  { sanitizeFilename(entries[i]) :
      i \in { n \in 1..Len(entries) :
                /\ n \notin failed
                /\ sanitizeFilename(entries[n]) # <<>>
                /\ ~(Len(extract_dir \o Slash \o sanitizeFilename(entries[n])) > MaxPath) } }

extractAsset(files, zip_file, extract_dir, dir_files, failed) ==
  IF ~FileExists(files, zip_file)
    THEN [success |-> FALSE, files |-> dir_files, opened |-> FALSE]
  ELSE IF Len(zip_file) > MaxPath
    THEN [success |-> FALSE, files |-> dir_files, opened |-> FALSE]
  ELSE IF ~IsZip(files[zip_file])
    THEN [success |-> FALSE, files |-> dir_files, opened |-> FALSE]
  ELSE LET entries == ArchiveEntries(files[zip_file]) IN
       [success |-> (failed \cap (1..Len(entries)) = {}),
        files |-> dir_files \cup ExtractedNames(entries, extract_dir, failed),
        opened |-> TRUE]

\* ------------------------------------------------------------------------
\* repackagePlugins
\* ------------------------------------------------------------------------
PackageNameLimit == 255
OutputDirLimit == 200
TimestampDigits == 10

PlatformDir(extension) == IF extension = S_dll THEN S_windows ELSE S_linux

OutputDir(tag_name, extension) == repo_dir_ \o tag_name \o Slash \o PlatformDir(extension)

\* the length of {plugin}_{tag}_{timestamp}.zip
PackageNameLen(safe_plugin_name, tag_name) ==
  Len(safe_plugin_name) + 1 + Len(tag_name) + 1 + TimestampDigits + Len(S_zip)

IsBinary(filename) == PathExtension(filename) \in {S_dll, S_so}

\* the binaries of extract_dir that reach the zip writer (line 740): the
\* manifest exists and no length guard skips them
Packable(dir_files, tag_name) ==
  { f \in dir_files :
      /\ IsBinary(f)
      /\ sanitizeFilename(PathStem(f)) # <<>>
      /\ sanitizeFilename(f) # <<>>
      /\ sanitizeFilename(PathStem(f) \o S_tools_json) # <<>>
      /\ sanitizeFilename(PathStem(f) \o S_tools_json) \in dir_files
      /\ ~(Len(OutputDir(tag_name, PathExtension(f))) > OutputDirLimit)
      /\ ~(PackageNameLen(sanitizeFilename(PathStem(f)), tag_name) > PackageNameLimit)
      /\ ~(Len(OutputDir(tag_name, PathExtension(f))) + 1
             + PackageNameLen(sanitizeFilename(PathStem(f)), tag_name) > MaxPath) }

Bundle(f, tag_name) ==
  [dir |-> OutputDir(tag_name, PathExtension(f)),
   plugin |-> sanitizeFilename(PathStem(f)),
   tag |-> tag_name]

\* lines 774-777 and 785: false only when an exception was caught
RepackageResult(threw) == ~threw

\* ------------------------------------------------------------------------
\* safeRemoveAll: removed says whether one of its attempts succeeded
\* ------------------------------------------------------------------------
safeRemoveAll(dirs, path, removed) ==
  IF path \notin DOMAIN dirs THEN dirs
  ELSE IF removed THEN Remove(dirs, path)
  ELSE dirs

\* ------------------------------------------------------------------------
\* processTag
\* ------------------------------------------------------------------------
\* the tag names processTag is called with
TagArgs == {T_v1, T_v2raw, T_v_2, T_long, T_longext, T_longstem, T_v2back, <<>>, <<"z">>}

EmptyTagInfo ==
  [tag_name |-> <<>>, name |-> <<>>, published_at |-> "", assets |-> <<>>,
   plugin_packages |-> NoPackages]

\* AlreadyProcessed with the early return of line 323 missing
AlreadyProcessed_Never(tag_info) == FALSE

\* line 323: the tag already has plugin packages
AlreadyProcessed(tag_info) == IsProcessed(tag_info)

\* NextProcessed as the plain assignment processed = repackagePlugins(...)
NextProcessed_Last(processed, repackaged_ok) == repackaged_ok

\* lines 410-414: processed becomes true once a repackagePlugins call
\* returned true and stays true
NextProcessed(processed, repackaged_ok) == processed \/ repackaged_ok

\* CommitWanted with the commit made unconditional
CommitWanted_Always(processed) == TRUE

\* line 421: commit and persist only when an asset was repackaged
CommitWanted(processed) == processed

TagDir(safe_tag_name) == repo_dir_ \o safe_tag_name

ExtractDir(safe_tag_name) == TagDir(safe_tag_name) \o S_temp_extract

\* the locals of a processTag call, with what the call has done so far
NewCall(tag_name, safe_tag_name) ==
  [op |-> "processTag", pc |-> "done", arg |-> tag_name, tag |-> safe_tag_name,
   tag_info |-> EmptyTagInfo, tasks |-> <<>>, launched |-> 0,
   completion |-> <<>>, successful_downloads |-> <<>>,
   i |-> 1, processed |-> FALSE, result |-> FALSE, exception |-> FALSE,
   \* history of the call: the early return of line 325 was taken, the
   \* assets given to extractAsset, the repackagePlugins calls and those
   \* that returned true, the bundles written, the commit and the save
   skipped |-> FALSE, extracted |-> <<>>, repack_calls |-> 0,
   \* the extractAsset call of the asset in hand: the entries of the
   \* archive it opened, those that failed, the files of the directory
   \* before the call, the result
   extraction |-> None,
   repackaged |-> <<>>, written |-> 0,
   committed |-> FALSE, saved |-> FALSE,
   \* the store and the disk when the call began
   tags0 |-> tags_, files0 |-> tagFiles, assets0 |-> assetFiles,
   scratch0 |-> scratch, packages0 |-> packages]

\* lines 304-329: sanitize, then look the tag up under mutex_
ProcessTagBegin(p, tag_name) ==
  /\ frame[p].op = "idle"
  /\ mutex_ = "free"
  /\ LET safe_tag_name == sanitizeFilename(tag_name)
         call == NewCall(tag_name, safe_tag_name)
     IN  IF safe_tag_name = <<>>
           THEN SetFrame(p, call)
         ELSE IF safe_tag_name \notin DOMAIN tags_
           THEN SetFrame(p, call)
         ELSE IF AlreadyProcessed(tags_[safe_tag_name])
           THEN SetFrame(p, [call EXCEPT !.result = TRUE, !.skipped = TRUE,
                                         !.tag_info = tags_[safe_tag_name]])
         ELSE SetFrame(p, [call EXCEPT !.pc = "tagdir",
                                       !.tag_info = tags_[safe_tag_name]])
  /\ UNCHANGED <<plugin_repo_url_, tags_, mutex_, tagFiles, assetFiles, scratch,
                 packages>>

\* processTag called from outside (POST /tags/{tag}/process, line 1149)
ProcessTag(p, tag_name) ==
  /\ ~terminated
  /\ stack[p] = <<>>
  /\ ProcessTagBegin(p, tag_name)
  /\ hist' = [hist EXCEPT !.calls = @ + 1]
  /\ hist.calls < MaxCalls
  /\ UNCHANGED <<stack, schedVars>>

\* lines 336-344: the tag directory
ProcessTagDir(p) ==
  /\ ~terminated
  /\ frame[p].op = "processTag"
  /\ frame[p].pc = "tagdir"
  /\ IF Len(TagDir(frame[p].tag)) > TagDirLimit
       THEN frame' = [frame EXCEPT ![p].pc = "done", ![p].result = FALSE]
       ELSE frame' = [frame EXCEPT ![p].pc = "launch"]
  /\ UNCHANGED <<plugin_repo_url_, tags_, mutex_, tagFiles, assetFiles, scratch,
                 packages, hist>>
  /\ UNCHANGED <<stack, schedVars>>

Downloadable(asset) == ~(Len(asset.local_path) > MaxPath)

\* lines 353-369: one download task per asset whose path is short enough
ProcessTagLaunch(p) ==
  /\ ~terminated
  /\ frame[p].op = "processTag"
  /\ frame[p].pc = "launch"
  /\ LET todo == SelectSeq(frame[p].tag_info.assets, Downloadable) IN
     frame' = [frame EXCEPT ![p].pc = "wait",
                            ![p].tasks = [k \in 1..Len(todo) |-> NewTask(todo[k])]]
  /\ UNCHANGED <<plugin_repo_url_, tags_, mutex_, tagFiles, assetFiles, scratch,
                 packages, hist>>
  /\ UNCHANGED <<stack, schedVars>>

Succeeded(task) == task.result

\* Collected with the results taken as the tasks end
Collected_AsCompleted(tasks, completion) ==
  LET ended == [n \in 1..Len(completion) |-> tasks[completion[n]]]
      ok == SelectSeq(ended, Succeeded)
  IN  [k \in 1..Len(ok) |-> ok[k].asset]

\* lines 372-384: download_futures[i].get() for i in launch order, the
\* asset of each successful one pushed back
Collected(tasks, completion) ==
  LET ok == SelectSeq(tasks, Succeeded) IN
  [k \in 1..Len(ok) |-> ok[k].asset]

\* lines 372-387: wait for every future, keep the successful downloads
ProcessTagCollect(p) ==
  /\ ~terminated
  /\ frame[p].op = "processTag"
  /\ frame[p].pc = "wait"
  /\ \A k \in 1..Len(frame[p].tasks) : frame[p].tasks[k].pc = "done"
  /\ frame' = [frame EXCEPT ![p].pc = "loop", ![p].i = 1,
                            ![p].launched = Len(frame[p].tasks),
                            ![p].tasks = <<>>,
                            ![p].successful_downloads =
                               Collected(frame[p].tasks, frame[p].completion)]
  /\ UNCHANGED <<plugin_repo_url_, tags_, mutex_, tagFiles, assetFiles, scratch,
                 packages, hist>>
  /\ UNCHANGED <<stack, schedVars>>

\* lines 390-401: the next downloaded asset and its scratch directory
ProcessTagNext(p, removed) ==
  /\ ~terminated
  /\ frame[p].op = "processTag"
  /\ frame[p].pc = "loop"
  /\ LET extract_dir == ExtractDir(frame[p].tag) IN
     IF frame[p].i > Len(frame[p].successful_downloads)
       THEN /\ frame' = [frame EXCEPT ![p].pc = "commit"]
            /\ UNCHANGED scratch
     ELSE IF Len(extract_dir) > ExtractDirLimit
       THEN /\ scratch' = safeRemoveAll(scratch, extract_dir, removed)
            /\ frame' = [frame EXCEPT ![p].i = @ + 1]
     ELSE /\ scratch' = IF extract_dir \in DOMAIN scratch
                          THEN scratch ELSE Put(scratch, extract_dir, {})
          /\ frame' = [frame EXCEPT ![p].pc = "extract"]
  /\ UNCHANGED <<plugin_repo_url_, tags_, mutex_, tagFiles, assetFiles, packages,
                 hist>>
  /\ UNCHANGED <<stack, schedVars>>

\* lines 403-407: extractAsset
ProcessTagExtract(p, failed) ==
  /\ ~terminated
  /\ frame[p].op = "processTag"
  /\ frame[p].pc = "extract"
  /\ LET extract_dir == ExtractDir(frame[p].tag)
         asset == frame[p].successful_downloads[frame[p].i]
         dir_files == IF extract_dir \in DOMAIN scratch THEN scratch[extract_dir] ELSE {}
         r == extractAsset(assetFiles, asset.local_path, extract_dir, dir_files, failed)
     IN  /\ scratch' = IF r.files = dir_files THEN scratch
                       ELSE Put(scratch, extract_dir, r.files)
         /\ frame' = [frame EXCEPT
                        ![p].pc = IF r.success THEN "repackage" ELSE "cleanup",
                        ![p].extracted = Append(@, asset.name),
                        ![p].extraction =
                           IF r.opened
                             THEN LET n == Len(ArchiveEntries(assetFiles[asset.local_path]))
                                  IN  Some([body |-> assetFiles[asset.local_path],
                                            failed |-> failed \cap (1..n),
                                            before |-> dir_files,
                                            success |-> r.success])
                             ELSE None]
  /\ UNCHANGED <<plugin_repo_url_, tags_, mutex_, tagFiles, assetFiles, packages,
                 hist>>
  /\ UNCHANGED <<stack, schedVars>>

\* lines 410-414: repackagePlugins writes the bundles in done; threw says an
\* exception was caught inside it before the remaining ones were written
ProcessTagRepackage(p, done, threw) ==
  /\ ~terminated
  /\ frame[p].op = "processTag"
  /\ frame[p].pc = "repackage"
  /\ LET extract_dir == ExtractDir(frame[p].tag) IN
     IF extract_dir \notin DOMAIN scratch
       THEN \* fs::directory_iterator throws out of processTag
            /\ done = {} /\ ~threw
            /\ frame' = [frame EXCEPT ![p].pc = "done", ![p].exception = TRUE,
                                      ![p].result = FALSE]
            /\ UNCHANGED packages
       ELSE LET packable == Packable(scratch[extract_dir], frame[p].tag) IN
            /\ done \subseteq packable
            /\ threw => done # packable
            /\ packages' = packages \cup {Bundle(f, frame[p].tag) : f \in done}
            /\ frame' = [frame EXCEPT
                           ![p].pc = "cleanup",
                           ![p].processed = NextProcessed(@, RepackageResult(threw)),
                           ![p].repack_calls = @ + 1,
                           ![p].repackaged =
                              IF RepackageResult(threw)
                                THEN Append(@, frame[p].successful_downloads[frame[p].i].name)
                                ELSE @,
                           ![p].written = @ + Cardinality(done)]
  /\ UNCHANGED <<plugin_repo_url_, tags_, mutex_, tagFiles, assetFiles, scratch,
                 hist>>
  /\ UNCHANGED <<stack, schedVars>>

\* lines 405 and 417: safeRemoveAll(extract_dir), then the next asset
ProcessTagCleanup(p, removed) ==
  /\ ~terminated
  /\ frame[p].op = "processTag"
  /\ frame[p].pc = "cleanup"
  /\ scratch' = safeRemoveAll(scratch, ExtractDir(frame[p].tag), removed)
  /\ frame' = [frame EXCEPT ![p].pc = "loop", ![p].i = @ + 1,
                            ![p].extraction = None]
  /\ UNCHANGED <<plugin_repo_url_, tags_, mutex_, tagFiles, assetFiles, packages,
                 hist>>
  /\ UNCHANGED <<stack, schedVars>>

\* lines 421-426 and 430-434: commit the copy under mutex_, or return false
ProcessTagCommit(p) ==
  /\ ~terminated
  /\ frame[p].op = "processTag"
  /\ frame[p].pc = "commit"
  /\ IF CommitWanted(frame[p].processed)
       THEN /\ mutex_ = "free"
            /\ tags_' = Put(tags_, frame[p].tag, frame[p].tag_info)
            /\ frame' = [frame EXCEPT ![p].pc = "save", ![p].committed = TRUE]
       ELSE /\ frame' = [frame EXCEPT ![p].pc = "done",
                                      ![p].result = frame[p].processed]
            /\ UNCHANGED tags_
  /\ UNCHANGED <<plugin_repo_url_, mutex_, tagFiles, assetFiles, scratch, packages,
                 hist>>
  /\ UNCHANGED <<stack, schedVars>>

\* lines 428-434: saveTagInfo, return processed
ProcessTagSave(p, opened) ==
  /\ ~terminated
  /\ frame[p].op = "processTag"
  /\ frame[p].pc = "save"
  /\ tagFiles' = saveTagInfo(tagFiles, frame[p].tag_info, opened)
  /\ frame' = [frame EXCEPT ![p].pc = "done", ![p].saved = TRUE,
                            ![p].result = frame[p].processed]
  /\ UNCHANGED <<plugin_repo_url_, tags_, mutex_, assetFiles, scratch, packages,
                 hist>>
  /\ UNCHANGED <<stack, schedVars>>

\* ------------------------------------------------------------------------
\* processAllTags
\* ------------------------------------------------------------------------
\* the characters of tag names in the order of their codes
CharOrder ==
  <<" ", "-", ".", "/", "0", "1", "2", "3", "4", "5", "6", "7", "8", "9",
    "P", "S", "V", "_", "a", "b", "c", "d", "e", "f", "g", "h", "i", "j",
    "k", "l", "m", "n", "o", "p", "q", "r", "s", "t", "u", "v", "w", "x",
    "y", "z">>

CharCode(c) == CHOOSE n \in 1..Len(CharOrder) : CharOrder[n] = c

\* std::less<std::string>, the order of the keys of tags_
StrLess(a, b) ==
  \E k \in 1..(Len(b)) :
     /\ \A j \in 1..(k - 1) : j <= Len(a) /\ a[j] = b[j]
     /\ \/ k = Len(a) + 1
        \/ k <= Len(a) /\ CharCode(a[k]) < CharCode(b[k])

\* the keys of a std::map in iteration order
RECURSIVE KeysInOrder(_)
KeysInOrder(keys) ==
  IF keys = {} THEN <<>>
  ELSE LET first == CHOOSE a \in keys : \A b \in keys \ {a} : StrLess(a, b)
       IN  <<first>> \o KeysInOrder(keys \ {first})

\* the locals of a processAllTags call: the snapshot of lines 441-449, the
\* position of the loop of line 453 and processed_count, with the calls of
\* processTag it has made and what each returned
NewAllCall(tags) ==
  [op |-> "processAllTags",
   pc |-> IF DOMAIN tags = {} THEN "done" ELSE "loop",
   tag_names |-> KeysInOrder(DOMAIN tags), i |-> 1, processed_count |-> 0,
   called |-> <<>>, returned |-> <<>>, exception |-> FALSE]

Push(p, f) == stack' = [stack EXCEPT ![p] = <<f>> \o @]

Pop(p) == stack' = [stack EXCEPT ![p] = Tail(@)]

SetTop(p, f) == stack' = [stack EXCEPT ![p] = <<f>> \o Tail(@)]

InAllTags(p) == stack[p] # <<>> /\ stack[p][1].op = "processAllTags"

\* AllTagsAfter with the loop left at the first processTag that fails
AllTagsAfter_StopAtFailure(all, call) ==
  LET n == IF call.result THEN all.processed_count + 1 ELSE all.processed_count
  IN  [all EXCEPT !.i = @ + 1, !.processed_count = n,
                  !.returned = Append(@, call.result),
                  !.pc = IF all.i + 1 > Len(all.tag_names) \/ ~call.result
                           THEN "done" ELSE "loop"]

\* lines 453-458: the processTag call has returned; count it and go on to
\* the next name of the snapshot
AllTagsAfter(all, call) ==
  LET n == IF call.result THEN all.processed_count + 1 ELSE all.processed_count
  IN  [all EXCEPT !.i = @ + 1, !.processed_count = n,
                  !.returned = Append(@, call.result),
                  !.pc = IF all.i + 1 > Len(all.tag_names)
                           THEN "done" ELSE "loop"]

\* lines 437-449: processAllTags called from outside takes its snapshot
\* under mutex_
ProcessAllTags(p) ==
  /\ ~terminated
  /\ AtTopLevel(p)
  /\ mutex_ = "free"
  /\ hist.calls < MaxCalls
  /\ Push(p, NewAllCall(tags_))
  /\ hist' = [hist EXCEPT !.calls = @ + 1]
  /\ UNCHANGED <<plugin_repo_url_, tags_, mutex_, tagFiles, assetFiles, scratch,
                 packages, frame, schedVars>>

\* line 455: processTag(tag_name) for the next name of the snapshot
ProcessAllTagsCall(p) ==
  /\ ~terminated
  /\ InAllTags(p)
  /\ stack[p][1].pc = "loop"
  /\ LET all == stack[p][1] IN
     /\ ProcessTagBegin(p, all.tag_names[all.i])
     /\ SetTop(p, [all EXCEPT !.called = Append(@, all.tag_names[all.i])])
  /\ UNCHANGED <<schedVars, hist>>

\* lines 455-458: processTag has returned (or thrown: nothing in
\* processAllTags catches)
ProcessAllTagsCollect(p) ==
  /\ ~terminated
  /\ InAllTags(p)
  /\ frame[p].op = "processTag"
  /\ frame[p].pc = "done"
  /\ IF frame[p].exception
       THEN SetTop(p, [stack[p][1] EXCEPT !.pc = "done", !.exception = TRUE])
       ELSE SetTop(p, AllTagsAfter(stack[p][1], frame[p]))
  /\ SetFrame(p, IdleFrame)
  /\ UNCHANGED <<plugin_repo_url_, tags_, mutex_, tagFiles, assetFiles, scratch,
                 packages, schedVars, hist>>

\* line 462: processAllTags returns to its outside caller
ProcessAllTagsReturn(p) ==
  /\ ~terminated
  /\ InAllTags(p)
  /\ stack[p][1].pc = "done"
  /\ Len(stack[p]) = 1
  /\ frame[p].op = "idle"
  /\ Pop(p)
  /\ UNCHANGED <<plugin_repo_url_, tags_, mutex_, tagFiles, assetFiles, scratch,
                 packages, frame, schedVars, hist>>

\* ------------------------------------------------------------------------
\* The periodic scan: startPeriodicScan, its worker thread, stopPeriodicScan
\* ------------------------------------------------------------------------
\* scan cycles begun in one behaviour
MaxCycles == 2

storeVars == <<plugin_repo_url_, tags_, mutex_, tagFiles, assetFiles, scratch,
               packages>>

IsWorker(w) == stack[w] # <<>> /\ stack[w][Len(stack[w])].op = "worker"

WorkerRec(w) == stack[w][Len(stack[w])]

\* the thread function of w has been entered and has not returned
WorkerRunning(w) == IsWorker(w) /\ WorkerRec(w).pc # "exited"

\* the thread function of w has returned
WorkerExited(w) == IsWorker(w) /\ WorkerRec(w).pc = "exited"

\* the worker is at the level of the lambda, inside no call
AtWorkerLoop(w, pc) ==
  /\ IsWorker(w)
  /\ Len(stack[w]) = 1
  /\ stack[w][1].pc = pc
  /\ frame[w].op = "idle"

SetWorker(w, rec) == stack' = [stack EXCEPT ![w] = <<rec>>]

\* LoopAgain as while (true): the worker never looks at stop_flag_
LoopAgain_Always(flag) == TRUE

\* line 1028: the test of the worker's loop, !stop_flag_.load()
LoopAgain(flag) == ~flag

\* line 1028: while (!stop_flag_.load()); then periodicScanTask calls
\* updateRepoInfo (line 1055)
WorkerWhile(w) ==
  /\ ~terminated
  /\ AtWorkerLoop(w, "while")
  /\ IF ~LoopAgain(stop_flag_)
       THEN /\ SetWorker(w, [stack[w][1] EXCEPT !.pc = "exited"])
            /\ UNCHANGED <<frame, hist>>
       ELSE /\ hist.cycles < MaxCycles
            /\ SetWorker(w, [stack[w][1] EXCEPT !.pc = "update"])
            /\ SetFrame(w, [op |-> "updateRepoInfo", pc |-> "ur_lock"])
            /\ hist' = [hist EXCEPT !.cycles = @ + 1]
  /\ UNCHANGED <<storeVars, schedVars>>

\* the end of a scan cycle: periodicScanTask returns, i = 0 (line 1032)
EndCycle(w, all) ==
  /\ SetWorker(w, [WorkerRec(w) EXCEPT !.pc = "for", !.i = 0])
  /\ hist' = [hist EXCEPT !.cyclesDone = @ + 1, !.lastAll = all]

\* lines 1055-1058: updateRepoInfo has returned
WorkerUpdated(w) ==
  /\ ~terminated
  /\ IsWorker(w)
  /\ Len(stack[w]) = 1
  /\ stack[w][1].pc = "update"
  /\ frame[w].op = "updateRepoInfo"
  /\ frame[w].pc = "done"
  /\ IF frame[w].result
       THEN /\ SetWorker(w, [stack[w][1] EXCEPT !.pc = "all"])
            /\ UNCHANGED hist
       ELSE EndCycle(w, None)
  /\ SetFrame(w, IdleFrame)
  /\ UNCHANGED <<storeVars, schedVars>>

\* line 1057: processAllTags takes its snapshot under mutex_
WorkerAllTags(w) ==
  /\ ~terminated
  /\ AtWorkerLoop(w, "all")
  /\ mutex_ = "free"
  /\ Push(w, NewAllCall(tags_))
  /\ UNCHANGED <<storeVars, frame, schedVars, hist>>

\* processAllTags returns to periodicScanTask; an exception that left it is
\* caught nowhere in the thread function: std::terminate
WorkerAllTagsDone(w) ==
  /\ ~terminated
  /\ InAllTags(w)
  /\ Len(stack[w]) = 2
  /\ stack[w][1].pc = "done"
  /\ frame[w].op = "idle"
  /\ IF stack[w][1].exception
       THEN /\ terminated' = TRUE
            /\ UNCHANGED <<stack, hist>>
       ELSE /\ EndCycle(w, Some(stack[w][1]))
            /\ UNCHANGED terminated
  /\ UNCHANGED <<storeVars, frame, stop_flag_, scan_interval_, periodic_thread_>>

\* SleepMore with the cancellation flag not looked at
SleepMore_IgnoreFlag(i, interval, flag) == i < interval

\* line 1032: i < scan_interval_ && !stop_flag_.load()
SleepMore(i, interval, flag) == i < interval /\ ~flag

\* line 1032: the test of the sleep loop
WorkerFor(w) ==
  /\ ~terminated
  /\ AtWorkerLoop(w, "for")
  /\ IF SleepMore(stack[w][1].i, scan_interval_, stop_flag_)
       THEN SetWorker(w, [stack[w][1] EXCEPT !.pc = "sleep"])
       ELSE SetWorker(w, [stack[w][1] EXCEPT !.pc = "while"])
  /\ UNCHANGED <<storeVars, frame, schedVars, hist>>

\* line 1033: one sleep_for(1 s) has elapsed; ++i
WorkerSleep(w) ==
  /\ ~terminated
  /\ AtWorkerLoop(w, "sleep")
  /\ SetWorker(w, [stack[w][1] EXCEPT !.pc = "for", !.i = @ + 1])
  /\ hist' = [hist EXCEPT !.sleepStop =
                IF stop_flag_ /\ @ # None
                  THEN Some([@[1] EXCEPT !.sleeps = @ + 1]) ELSE @]
  /\ UNCHANGED <<storeVars, frame, schedVars>>

\* what a thread calling startPeriodicScan or stopPeriodicScan found
ScanCall(op, pc) ==
  [op |-> op, pc |-> pc, exception |-> FALSE, thread |-> "",
   running0 |-> {w \in Workers : WorkerRunning(w)},
   inCycle0 |-> {w \in Workers : WorkerRunning(w)
                                   /\ WorkerRec(w).pc \in {"update", "all"}},
   all0 |-> {stack[w][1] : w \in {x \in Workers : InAllTags(x)}},
   inFlight0 |-> {w \in Workers : /\ frame[w].op = "processTag"
                                   /\ frame[w].pc = "wait"
                                   /\ frame[w].tasks # <<>>},
   cycles0 |-> hist.cycles,
   sched0 |-> <<stop_flag_, scan_interval_, periodic_thread_>>]

\* lines 1024-1025: scan_interval_ and stop_flag_ are set
StartPeriodicScan(p, intervalSeconds) ==
  /\ ~terminated
  /\ AtTopLevel(p)
  /\ scan_interval_' = intervalSeconds
  /\ stop_flag_' = FALSE
  /\ SetFrame(p, ScanCall("startPeriodicScan", "thread"))
  /\ hist' = [hist EXCEPT !.scanCalls = @ + 1, !.sleepStop = None,
                          !.stopped = None]
  /\ hist.scanCalls < MaxScanCalls
  /\ UNCHANGED <<storeVars, stack, periodic_thread_, terminated>>

\* Joinable with the test of line 1044 left out
Joinable_Always(thread) == TRUE

\* std::thread::joinable
Joinable(thread) == thread # None

\* line 1027: std::thread(lambda) starts a new thread, then the move
\* assignment to periodic_thread_, where std::thread::operator= calls
\* std::terminate when the thread assigned to is joinable
StartThread(p, w) ==
  /\ ~terminated
  /\ frame[p].op = "startPeriodicScan"
  /\ frame[p].pc = "thread"
  /\ stack[w] = <<>>
  /\ stack' = [stack EXCEPT ![w] = <<NewWorker>>]
  /\ IF Joinable(periodic_thread_)
       THEN /\ terminated' = TRUE
            /\ UNCHANGED <<periodic_thread_, frame>>
       ELSE /\ periodic_thread_' = Some(w)
            /\ frame' = [frame EXCEPT ![p].pc = "done", ![p].thread = w]
            /\ UNCHANGED terminated
  /\ UNCHANGED <<storeVars, stop_flag_, scan_interval_, hist>>

\* line 1042: stop_flag_.store(true)
StopPeriodicScan(p) ==
  /\ ~terminated
  /\ AtTopLevel(p)
  /\ stop_flag_' = TRUE
  /\ SetFrame(p, ScanCall("stopPeriodicScan", "join"))
  /\ hist' = [hist EXCEPT !.scanCalls = @ + 1,
                          !.sleepStop =
                             IF \E w \in Workers :
                                  /\ ~stop_flag_
                                  /\ WorkerRunning(w)
                                  /\ WorkerRec(w).pc \in {"for", "sleep"}
                               THEN Some([sleeps |-> 0, cycles |-> hist.cycles])
                               ELSE @]
  /\ hist.scanCalls < MaxScanCalls
  /\ UNCHANGED <<storeVars, stack, scan_interval_, periodic_thread_, terminated>>

\* JoinReturns as detach(): the caller does not wait for the thread
JoinReturns_Detach(w) == TRUE

\* std::thread::join returns once the thread function has returned
JoinReturns(w) == WorkerExited(w)

\* lines 1044-1048: join the worker if there is one; join on a thread that
\* is not joinable throws std::system_error
StopJoin(p) ==
  /\ ~terminated
  /\ frame[p].op = "stopPeriodicScan"
  /\ frame[p].pc = "join"
  /\ IF ~Joinable(periodic_thread_)
       THEN /\ frame' = [frame EXCEPT ![p].pc = "done"]
            /\ UNCHANGED <<stack, periodic_thread_>>
     ELSE IF periodic_thread_ = None
       THEN /\ frame' = [frame EXCEPT ![p].pc = "done", ![p].exception = TRUE]
            /\ UNCHANGED <<stack, periodic_thread_>>
     ELSE /\ JoinReturns(periodic_thread_[1])
          /\ periodic_thread_' = None
          /\ stack' = [stack EXCEPT ![periodic_thread_[1]] =
                          IF WorkerExited(periodic_thread_[1]) THEN <<>> ELSE @]
          /\ frame' = [frame EXCEPT ![p].pc = "done"]
  /\ hist' = [hist EXCEPT !.stopped = Some(hist.cycles)]
  /\ UNCHANGED <<storeVars, stop_flag_, scan_interval_, terminated>>

\* ------------------------------------------------------------------------
\* One caller at a time: the calls of one thread, the download tasks of a
\* processTag call running concurrently with each other
\* ------------------------------------------------------------------------
Caller == "t1"

Step(p) ==
  \/ \E url \in URLs : SetPluginRepoURL(p, url)
  \/ UpdateRepoInfoCall(p)
  \/ UpdateLock(p)
  \/ \E response \in ApiResponses : UpdateFetch(p, response)
  \/ UpdateMerge(p)
  \/ \E tag_name \in TagArgs : ProcessTag(p, tag_name)
  \/ ProcessTagDir(p)
  \/ ProcessTagLaunch(p)
  \/ \E k \in 1..2 : DownloadCheck(p, k)
  \/ \E k \in 1..2, outcome \in HttpOutcomes : DownloadGet(p, k, outcome)
  \/ \E k \in 1..2, opened \in BOOLEAN : DownloadOpen(p, k, opened)
  \/ \E k \in 1..2 : DownloadClose(p, k)
  \/ ProcessTagCollect(p)
  \/ \E removed \in BOOLEAN : ProcessTagNext(p, removed)
  \/ \E failed \in SUBSET (1..3) : ProcessTagExtract(p, failed)
  \/ \E done \in SUBSET {E_w_dll, E_p_so}, threw \in BOOLEAN :
        ProcessTagRepackage(p, done, threw)
  \/ \E removed \in BOOLEAN : ProcessTagCleanup(p, removed)
  \/ ProcessTagCommit(p)
  \/ \E opened \in BOOLEAN : ProcessTagSave(p, opened)
  \/ Return(p)
  \/ ProcessAllTags(p)
  \/ ProcessAllTagsCall(p)
  \/ ProcessAllTagsCollect(p)
  \/ ProcessAllTagsReturn(p)

Next == Step(Caller)

Spec == Init /\ [][Next]_vars

ScanResponses == {[kind |-> "neterr"], [kind |-> "ok", body |-> Feed3]}

ScanOutcomes == {"200", "404"}

\* ------------------------------------------------------------------------
\* Two threads of the server, each handling POST /tags/v1/process, after a
\* reconcile that fetched three releases into an empty plugin_repo/.  An
\* asset GET answers 200 or 404; the filesystem does not fail.
\* ------------------------------------------------------------------------
ConcStep(p) ==
  \/ ProcessTag(p, T_v1)
  \/ ProcessTagDir(p)
  \/ ProcessTagLaunch(p)
  \/ \E k \in 1..2 : DownloadCheck(p, k)
  \/ \E k \in 1..2, outcome \in ScanOutcomes : DownloadGet(p, k, outcome)
  \/ \E k \in 1..2 : DownloadOpen(p, k, TRUE)
  \/ \E k \in 1..2 : DownloadClose(p, k)
  \/ ProcessTagCollect(p)
  \/ ProcessTagNext(p, TRUE)
  \/ ProcessTagExtract(p, {})
  \/ \E done \in SUBSET {E_w_dll, E_p_so} : ProcessTagRepackage(p, done, FALSE)
  \/ ProcessTagCleanup(p, TRUE)
  \/ ProcessTagCommit(p)
  \/ ProcessTagSave(p, TRUE)
  \/ Return(p)

NextConc == \E p \in Threads : ConcStep(p)

\* the manager constructed with an empty plugin_repo/ and main's
\* setPluginRepoURL returned after fetching the releases of Feed1
InitConc ==
  /\ plugin_repo_url_ = GoodURL
  /\ tags_ = MergeTags(<<>>, fetchAllReleases(GoodURL, [kind |-> "ok", body |-> Feed1])[1], NoFiles)
  /\ mutex_ = "free"
  /\ tagFiles = NoFiles
  /\ assetFiles = <<>>
  /\ scratch = <<>>
  /\ packages = {}
  /\ frame = [p \in AllThreads |-> IdleFrame]
  /\ stack = [p \in AllThreads |->
                IF p = FirstWorker THEN <<NewWorker>> ELSE <<>>]
  /\ stop_flag_ = FALSE
  /\ scan_interval_ = ConstructorInterval
  /\ periodic_thread_ = Some(FirstWorker)
  /\ terminated = FALSE
  /\ hist = [calls |-> 1, recon |-> None,
             scanCalls |-> 0, cycles |-> 0, cyclesDone |-> 0, lastAll |-> None,
             sleepStop |-> None, stopped |-> None]

SpecConc == InitConc /\ [][NextConc]_vars

\* ------------------------------------------------------------------------
\* The periodic scan running beside one thread that starts and stops it.
\* The releases endpoint answers with a failure or with three
\* releases, an asset GET with 200 or 404; the filesystem does not fail.
\* ------------------------------------------------------------------------
\* the argument of startPeriodicScan: the default, as in POST /scan/start
Intervals == {DefaultInterval}

WorkerStep(w) ==
  \/ WorkerWhile(w)
  \/ WorkerUpdated(w)
  \/ WorkerAllTags(w)
  \/ ProcessAllTagsCall(w)
  \/ ProcessAllTagsCollect(w)
  \/ WorkerAllTagsDone(w)
  \/ WorkerFor(w)
  \/ WorkerSleep(w)
  \/ UpdateLock(w)
  \/ \E response \in ScanResponses : UpdateFetch(w, response)
  \/ UpdateMerge(w)
  \/ ProcessTagDir(w)
  \/ ProcessTagLaunch(w)
  \/ \E k \in 1..2 : DownloadCheck(w, k)
  \/ \E k \in 1..2, outcome \in ScanOutcomes : DownloadGet(w, k, outcome)
  \/ \E k \in 1..2 : DownloadOpen(w, k, TRUE)
  \/ \E k \in 1..2 : DownloadClose(w, k)
  \/ ProcessTagCollect(w)
  \/ ProcessTagNext(w, TRUE)
  \/ ProcessTagExtract(w, {})
  \/ \E done \in SUBSET {E_w_dll, E_p_so} : ProcessTagRepackage(w, done, FALSE)
  \/ ProcessTagCleanup(w, TRUE)
  \/ ProcessTagCommit(w)
  \/ ProcessTagSave(w, TRUE)

ControlStep(p) ==
  \/ \E intervalSeconds \in Intervals : StartPeriodicScan(p, intervalSeconds)
  \/ \E w \in Workers : StartThread(p, w)
  \/ StopPeriodicScan(p)
  \/ StopJoin(p)
  \/ Return(p)

NextScan ==
  \/ ControlStep(Caller)
  \/ \E w \in Workers : WorkerStep(w)

\* the manager constructed with an empty plugin_repo/, main's
\* setPluginRepoURL returned after a fetch that failed, the worker of the
\* constructor not yet past its first test of stop_flag_
InitScan ==
  /\ plugin_repo_url_ = GoodURL
  /\ tags_ = <<>>
  /\ mutex_ = "free"
  /\ tagFiles = NoFiles
  /\ assetFiles = <<>>
  /\ scratch = <<>>
  /\ packages = {}
  /\ frame = [p \in AllThreads |-> IdleFrame]
  /\ stack = [p \in AllThreads |->
                IF p = FirstWorker THEN <<NewWorker>> ELSE <<>>]
  /\ stop_flag_ = FALSE
  /\ scan_interval_ = ConstructorInterval
  /\ periodic_thread_ = Some(FirstWorker)
  /\ terminated = FALSE
  /\ hist = [calls |-> 1, recon |-> None,
             scanCalls |-> 0, cycles |-> 0, cyclesDone |-> 0, lastAll |-> None,
             sleepStop |-> None, stopped |-> None]

SpecScan == InitScan /\ [][NextScan]_vars

\* ========================================================================
\* Claims
\* ========================================================================
Calls == {p \in AllThreads : frame[p].op = "processTag"}

Finished == {p \in Calls : frame[p].pc = "done"}

Tasks == {<<p, k>> \in AllThreads \X (1..2) :
            frame[p].op = "processTag" /\ k \in 1..Len(frame[p].tasks)}

TaskOf(pk) == frame[pk[1]].tasks[pk[2]]

Gets(log) == Len(SelectSeq(log, LAMBDA e : e = "GET"))

AssetNames(assets) == [k \in 1..Len(assets) |-> assets[k].name]

\* C1: a processTag call on a tag whose store record has a non-empty
\* plugin_packages map has returned true, and it started no download task,
\* extracted nothing, repackaged nothing, and left the store and the disk
\* (tag files, asset files, scratch directories, bundles) as they were.
C1_ProcessedTagIsSkipped ==
  \A p \in Calls :
     (frame[p].tag \in DOMAIN frame[p].tags0
        /\ DOMAIN frame[p].tags0[frame[p].tag].plugin_packages # {})
     => /\ frame[p].pc = "done"
        /\ frame[p].result = TRUE
        /\ frame[p].tasks = <<>> /\ frame[p].launched = 0
        /\ frame[p].extracted = <<>>
        /\ frame[p].repack_calls = 0 /\ frame[p].written = 0
        /\ ~frame[p].committed /\ ~frame[p].saved
        /\ tags_ = frame[p].tags0 /\ tagFiles = frame[p].files0
        /\ assetFiles = frame[p].assets0 /\ scratch = frame[p].scratch0
        /\ packages = frame[p].packages0

C1_Witness ==
  \E p \in Finished :
     /\ frame[p].tag \in DOMAIN frame[p].tags0
     /\ DOMAIN frame[p].tags0[frame[p].tag].plugin_packages # {}
     /\ frame[p].result = TRUE

\* C2: after a processTag call that wrote at least one bundle has returned
\* true, the record of the tag in the store and the record in its tag file
\* have a non-empty plugin_packages map whose entries carry the tag's name.
C2_CommittedRecordIsProcessed ==
  \A p \in Finished :
     (frame[p].result = TRUE /\ frame[p].written > 0 /\ frame[p].saved
        /\ frame[p].tag \in DOMAIN tagFiles)
     => /\ frame[p].tag \in DOMAIN tags_
        /\ DOMAIN tags_[frame[p].tag].plugin_packages # {}
        /\ \A id \in DOMAIN tags_[frame[p].tag].plugin_packages :
              tags_[frame[p].tag].plugin_packages[id].tag_name = frame[p].tag
        /\ tagFiles[frame[p].tag].valid
        /\ DOMAIN tagFiles[frame[p].tag].json.plugin_packages # {}

\* the last release of the fetched list that carries the tag name
LastFetched(releases, t) ==
  releases[CHOOSE i \in 1..Len(releases) :
             /\ releases[i].tag_name = t
             /\ \A j \in (i+1)..Len(releases) : releases[j].tag_name # t]

HasProcessedFile(t) ==
  /\ t \in DOMAIN tagFiles
  /\ tagFiles[t].valid
  /\ DOMAIN tagFiles[t].json.plugin_packages # {}

Reconciled == {p \in AllThreads : /\ frame[p].op = "updateRepoInfo"
                               /\ frame[p].pc = "done"
                               /\ frame[p].result}

\* C3: when updateRepoInfo has returned true, for every fetched tag the
\* store holds the record read from the tag's file if that file exists and
\* has a non-empty plugin_packages map, and otherwise the freshly fetched
\* record of the tag (the last one fetched under that name).
C3_ReconcilePrefersProcessedFile ==
  \A p \in Reconciled :
     \A i \in 1..Len(frame[p].releases) :
        LET t == frame[p].releases[i].tag_name IN
        /\ t \in DOMAIN tags_
        /\ IF HasProcessedFile(t)
             THEN tags_[t] = loadTagInfo(tagFiles, t)[1]
             ELSE tags_[t] = LastFetched(frame[p].releases, t)

C3_Witness ==
  \E p \in Reconciled :
     /\ \E i \in 1..Len(frame[p].releases) :
           HasProcessedFile(frame[p].releases[i].tag_name)
     /\ \E i \in 1..Len(frame[p].releases) :
           ~HasProcessedFile(frame[p].releases[i].tag_name)

\* C4: when a reconcile has returned true and the reconcile before it
\* fetched the same release list and found the same tag files, the store
\* is the one the earlier reconcile left.
C4_ReconcileIdempotent ==
  \A p \in Reconciled :
     (/\ frame[p].prev # None
      /\ frame[p].prev[1].releases = frame[p].releases
      /\ frame[p].prev[1].files = tagFiles)
     => tags_ = frame[p].prev[1].tags

C4_Witness ==
  \E p \in Reconciled :
     /\ frame[p].prev # None
     /\ frame[p].prev[1].releases = frame[p].releases
     /\ frame[p].prev[1].files = tagFiles
     /\ tags_ # <<>>

\* C5: a download that never found the file and got only transient
\* failures ends after exactly three requests, with a delay before the
\* second and the third only, and fails with no file at local_path.
C5_TransientFailureThreeAttempts ==
  \A pk \in Tasks :
     (TaskOf(pk).pc = "done" /\ TaskOf(pk).transientOnly /\ ~TaskOf(pk).sawFile)
     => /\ TaskOf(pk).log = <<"GET", "sleep", "GET", "sleep", "GET">>
        /\ TaskOf(pk).result = FALSE
        /\ ~TaskOf(pk).wrote
        /\ TaskOf(pk).asset.local_path \notin DOMAIN assetFiles

C5_Witness ==
  \E pk \in Tasks :
     /\ TaskOf(pk).pc = "done" /\ TaskOf(pk).transientOnly /\ ~TaskOf(pk).sawFile
     /\ Gets(TaskOf(pk).log) = max_retries

\* C6: once a response was 404 the download has ended in failure with that
\* request its last step, so a first response of 404 means one request.
C6_NotFoundEndsDownload ==
  \A pk \in Tasks :
     TaskOf(pk).got404
     => /\ TaskOf(pk).pc = "done"
        /\ TaskOf(pk).result = FALSE
        /\ ~TaskOf(pk).wrote
        /\ Gets(TaskOf(pk).log) = TaskOf(pk).attempt
        /\ TaskOf(pk).log[Len(TaskOf(pk).log)] = "GET"

C6_Witness ==
  \E pk \in Tasks : TaskOf(pk).got404 /\ TaskOf(pk).log = <<"GET">>

\* C7: a download attempt that began with a file at local_path has
\* returned true with no request in that attempt and the file as it was.
C7_ExistingFileShortCircuits ==
  \A pk \in Tasks :
     TaskOf(pk).sawFile
     => /\ TaskOf(pk).pc = "done"
        /\ TaskOf(pk).result = TRUE
        /\ ~TaskOf(pk).wrote
        /\ Gets(TaskOf(pk).log) = TaskOf(pk).attempt - 1
        /\ TaskOf(pk).asset.local_path \in DOMAIN assetFiles
        /\ assetFiles[TaskOf(pk).asset.local_path] = TaskOf(pk).seen

C7_Witness ==
  \E pk \in Tasks : TaskOf(pk).sawFile /\ TaskOf(pk).result = TRUE

\* C8: a processTag call in which repackagePlugins returned true for at
\* least one asset returns true, and every successfully downloaded asset
\* was given to extractAsset, in the order of the downloads.
C8_OneSuccessSuffices ==
  \A p \in Finished :
     frame[p].repackaged # <<>>
     => /\ frame[p].result = TRUE
        /\ frame[p].extracted = AssetNames(frame[p].successful_downloads)

C8_Witness ==
  \E p \in Finished :
     /\ frame[p].result = TRUE
     /\ frame[p].launched = 2
     /\ Len(frame[p].extracted) = 2
     /\ Len(frame[p].repackaged) = 1
     /\ frame[p].repackaged[1] = frame[p].extracted[1]

\* C9: a processTag call that went through the pipeline returns true only
\* if it wrote at least one bundle.
C9_TrueOnlyIfBundleWritten ==
  \A p \in Finished :
     (frame[p].result = TRUE /\ ~frame[p].skipped) => frame[p].written > 0

\* C10: when processTag has returned false, the store's map and the tag
\* files are what they were when the call began.
C10_FalseLeavesStoreAndFile ==
  \A p \in Finished :
     frame[p].result = FALSE
     => /\ tags_ = frame[p].tags0
        /\ tagFiles = frame[p].files0

C10_Witness ==
  \E p \in Finished :
     /\ frame[p].result = FALSE
     /\ frame[p].extracted # <<>>
     /\ frame[p].tag \in DOMAIN tags_

\* ------------------------------------------------------------------------
\* processAllTags
\* ------------------------------------------------------------------------
AllCalls == {p \in AllThreads : InAllTags(p)}

\* C11: a processAllTags call has called processTag for the names of its
\* snapshot in order, each at most once, and when it has returned it has
\* called it for every name, also after calls that returned false.
C11_EveryTagOfSnapshotCalledOnce ==
  \A p \in AllCalls :
     LET all == stack[p][1] IN
     /\ Len(all.called) <= Len(all.tag_names)
     /\ all.called = SubSeq(all.tag_names, 1, Len(all.called))
     /\ all.pc = "done" =>
          /\ all.called = all.tag_names
          /\ Len(all.returned) = Len(all.tag_names)

C11_Witness ==
  \E p \in AllCalls :
     LET all == stack[p][1] IN
     /\ all.pc = "done"
     /\ Len(all.tag_names) >= 2
     /\ all.returned[1] = FALSE
     /\ \E k \in 2..Len(all.returned) : all.returned[k] = TRUE

\* ------------------------------------------------------------------------
\* The store mutex
\* ------------------------------------------------------------------------
\* the next step of the thread is a network request or a read or write of
\* the filesystem: the GET inside fetchAllReleases, the tag files read by
\* loadTagInfo in the loop of updateRepoInfo, the directories, downloads,
\* archives and tag file of processTag
AtBlockingOperation(p) ==
  \/ /\ frame[p].op = "updateRepoInfo"
     /\ frame[p].pc \in {"ur_fetch", "ur_merge"}
  \/ /\ frame[p].op = "processTag"
     /\ frame[p].pc \in {"tagdir", "wait", "loop", "extract", "repackage",
                         "cleanup", "save"}

\* C12: no thread holds mutex_ while it performs a network request or reads
\* or writes a file, in updateRepoInfo, processTag, processAllTags,
\* getAllTags and getTagInfo.
C12_NoBlockingUnderMutex ==
  \A p \in AllThreads : mutex_ = p => ~AtBlockingOperation(p)

\* ------------------------------------------------------------------------
\* The periodic scan
\* ------------------------------------------------------------------------
RunningWorkers == {w \in Workers : WorkerRunning(w)}

ScanCalls(op) == {p \in Threads : frame[p].op = op}

\* C13: at most one scan worker runs at any moment, also after a
\* startPeriodicScan issued while a worker was running.
C13_AtMostOneWorker == Cardinality(RunningWorkers) <= 1

\* C14: a startPeriodicScan issued while the worker was running completes:
\* the process is not terminated, and when the call has returned a scan
\* worker is running.
C14_ScanStartOnLiveServer ==
  \A p \in ScanCalls("startPeriodicScan") :
     frame[p].running0 # {} =>
        /\ ~terminated
        /\ frame[p].pc = "done" => RunningWorkers # {}

\* C15: a stopPeriodicScan that finds no worker running does not block; when
\* stopPeriodicScan has returned the flag is set, periodic_thread_ is not
\* joinable and no worker runs; and a call made when the scan was already
\* stopped leaves what the call before it left.
C15_StopIsIdempotent ==
  \A p \in ScanCalls("stopPeriodicScan") :
     /\ (frame[p].pc = "join" /\ RunningWorkers = {}) => ENABLED StopJoin(p)
     /\ frame[p].pc = "done" =>
          /\ ~frame[p].exception
          /\ stop_flag_ /\ periodic_thread_ = None /\ RunningWorkers = {}
     /\ (frame[p].pc = "done" /\ frame[p].sched0[1] /\ frame[p].sched0[3] = None) =>
          /\ <<stop_flag_, scan_interval_, periodic_thread_>> = frame[p].sched0
          /\ \A w \in Workers : stack[w] = <<>>

C15_Witness ==
  \E p \in ScanCalls("stopPeriodicScan") :
     /\ frame[p].pc = "done"
     /\ frame[p].running0 = {}
     /\ frame[p].sched0[1] /\ frame[p].sched0[3] = None

AllComplete(all) ==
  /\ all.called = all.tag_names
  /\ Len(all.returned) = Len(all.tag_names)

\* C16: when a stopPeriodicScan called during a scan cycle has returned,
\* that cycle has ended, its processAllTags having called processTag for
\* every tag of its snapshot, and no cycle has begun since the call; and
\* from the return of stopPeriodicScan on no cycle begins and no worker
\* runs, until the scan is started again.
C16_StopWaitsForCycle ==
  /\ \A p \in ScanCalls("stopPeriodicScan") :
        (frame[p].pc = "done" /\ frame[p].inCycle0 # {}) =>
           /\ hist.cyclesDone = hist.cycles
           /\ hist.cycles = frame[p].cycles0
           /\ hist.lastAll # None => AllComplete(hist.lastAll[1])
           /\ \A a \in frame[p].all0 :
                 /\ hist.lastAll # None
                 /\ hist.lastAll[1].tag_names = a.tag_names
  /\ hist.stopped # None =>
        /\ hist.cycles = hist.stopped[1]
        /\ hist.cyclesDone = hist.cycles
        /\ RunningWorkers = {}

C16_Witness ==
  \E p \in ScanCalls("stopPeriodicScan") :
     /\ frame[p].pc = "done"
     /\ frame[p].inFlight0 # {}
     /\ \E a \in frame[p].all0 : Len(a.called) < Len(a.tag_names)
     /\ hist.lastAll # None
     /\ Len(hist.lastAll[1].tag_names) >= 2

\* C17: once stop_flag_ has been set with the worker in its sleep loop, the
\* worker ends at most one more sleep step and begins no scan cycle,
\* whatever scan_interval_ is.
C17_AtMostOneMoreSleep ==
  hist.sleepStop # None =>
     /\ hist.sleepStop[1].sleeps <= 1
     /\ hist.cycles = hist.sleepStop[1].cycles

C17_Witness ==
  /\ hist.sleepStop # None
  /\ hist.sleepStop[1].sleeps = 1
  /\ RunningWorkers = {}
  /\ \E p \in ScanCalls("stopPeriodicScan") : frame[p].pc = "done"

\* ------------------------------------------------------------------------
\* Scratch directory, downloaded files, file names
\* ------------------------------------------------------------------------
\* C18: when processTag has returned after it created the scratch directory
\* of the tag (it gave an asset to extractAsset), that directory does not
\* exist any more.
C18_ScratchRemovedOnReturn ==
  \A p \in Finished :
     frame[p].extracted # <<>> => ExtractDir(frame[p].tag) \notin DOMAIN scratch

\* C19: when downloadAsset has returned true for an asset, the file at its
\* local_path exists and is completely written, never a file another
\* download is still writing.
C19_DownloadedFileIsComplete ==
  \A pk \in Tasks :
     (TaskOf(pk).pc = "done" /\ TaskOf(pk).result) =>
        /\ TaskOf(pk).asset.local_path \in DOMAIN assetFiles
        /\ assetFiles[TaskOf(pk).asset.local_path] # "partial"

\* C20: the name sanitizeFilename returns is at most 255 characters long,
\* also when the part of the name after its last '.' is longer than that.
C20_SanitizedNameAtMost255 ==
  \A p \in Calls : Len(frame[p].tag) <= NameLimit

\* ------------------------------------------------------------------------
\* sanitizeFilename as processTag applies it to its argument
\* ------------------------------------------------------------------------
SafeChars == LowerChars \cup UpperChars \cup DigitChars \cup {".", "-", "_", " "}

\* C21: sanitizeFilename applied to the name it returned returns that name:
\* for every processTag call, whose tag is sanitizeFilename of its argument
\* (truncated, empty and ordinary arguments alike), sanitizing the tag again
\* changes nothing.
C21_SanitizeIdempotent ==
  \A p \in Calls :
     /\ frame[p].tag = sanitizeFilename(frame[p].arg)
     /\ sanitizeFilename(frame[p].tag) = frame[p].tag

\* a call whose argument was longer than the limit and was cut to it
C21_Witness ==
  \E p \in Calls :
     /\ Len(frame[p].arg) > NameLimit
     /\ Len(frame[p].tag) = NameLimit
     /\ frame[p].tag # frame[p].arg

\* C22: the name sanitizeFilename returns is never empty and holds only
\* letters, digits, '.', '-', '_' and space, so neither '/' nor '\'; for the
\* empty argument it is the placeholder.
C22_SanitizedNameIsSafe ==
  \A p \in Calls :
     /\ frame[p].tag # <<>>
     /\ \A i \in 1..Len(frame[p].tag) : frame[p].tag[i] \in SafeChars
     /\ frame[p].arg = <<>> => frame[p].tag = UnnamedFile

\* a call whose argument holds a path separator
C22_Witness ==
  \E p \in Calls :
     /\ \E i \in 1..Len(frame[p].arg) : frame[p].arg[i] \in {"/", "\\"}
     /\ Len(frame[p].tag) = Len(frame[p].arg)

\* ------------------------------------------------------------------------
\* Asset selection
\* ------------------------------------------------------------------------
\* calls of updateRepoInfo that hold a fetched release list
Fetched == {p \in AllThreads : /\ frame[p].op = "updateRepoInfo"
                            /\ frame[p].pc \in {"ur_merge", "done"}
                            /\ "body" \in DOMAIN frame[p]}

\* the asset names of a response of the API, as fetchAllReleases cleans them
BodyAssetNames(body) ==
  UNION {{sanitizeFilename(body[i].assets[k].name) : k \in 1..Len(body[i].assets)} :
           i \in 1..Len(body)}

\* the claim's condition on a name
PluginMarked(name) ==
  /\ Contains(ToLowerStr(name), S_plugin)
  /\ Contains(ToLowerStr(name), S_zip)
  /\ ~Contains(ToLowerStr(name), S_server)

PathCeiling == 260

\* the local_path of every asset of the API's responses, computed as
\* fetchAllReleases computes it, and those longer than the ceiling
FeedPaths ==
  UNION {UNION {{AssetOfJson(sanitizeFilename(f[i].tag_name), f[i].assets[k]).local_path :
                   k \in 1..Len(f[i].assets)} : i \in 1..Len(f)} : f \in Feeds}

OverlongPaths == {path \in FeedPaths : Len(path) > PathCeiling}

\* C24: for an asset whose local_path is longer than 260 characters no
\* download task exists and no file is created at that path, while every
\* other asset of the tag's record gets its download task.
C24_OverlongAssetNotDownloaded ==
  /\ \A path \in OverlongPaths : path \notin DOMAIN assetFiles
  /\ \A p \in Calls :
        /\ \A k \in 1..Len(frame[p].tasks) :
              Len(frame[p].tasks[k].asset.local_path) <= PathCeiling
        /\ frame[p].pc = "wait" =>
              \A k \in 1..Len(frame[p].tag_info.assets) :
                 Len(frame[p].tag_info.assets[k].local_path) <= PathCeiling =>
                    \E j \in 1..Len(frame[p].tasks) :
                       frame[p].tasks[j].asset = frame[p].tag_info.assets[k]

\* processTag has launched the downloads of v1 as the response with the
\* over-long asset name listed it: the two other assets are being downloaded
C24_Witness ==
  /\ repo_dir_ \o T_v1 \o Slash \o A_longname \in OverlongPaths
  /\ \E p \in Calls :
        /\ frame[p].tag = T_v1
        /\ Len(frame[p].tasks) = 2
        /\ frame[p].tasks[1].asset.name = A_plugin
        /\ frame[p].tasks[2].asset.name = A_Plugin2
        /\ frame[p].tasks[2].log # <<>>

\* ------------------------------------------------------------------------
\* Failed fetch
\* ------------------------------------------------------------------------
Updates == {p \in AllThreads : frame[p].op = "updateRepoInfo"}

FetchFailures == {"url", "neterr", "status", "malformed"}

\* C25: an updateRepoInfo whose fetch failed (invalid repository URL, no
\* response, a status other than 200, a body that is not JSON) does not
\* reach the rebuild of tags_: it returns false and tags_ is the map it was
\* when the call took the lock.
C25_FailedFetchLeavesStore ==
  \A p \in Updates :
     ("cause" \in DOMAIN frame[p] /\ frame[p].cause \in FetchFailures) =>
        /\ frame[p].pc = "done"
        /\ ~frame[p].result
        /\ tags_ = frame[p].tags0

\* a fetch failed on a response of the API while the store held tags
C25_Witness ==
  \E p \in Updates :
     /\ "cause" \in DOMAIN frame[p]
     /\ frame[p].cause \in {"neterr", "status", "malformed"}
     /\ tags_ # <<>>

\* ------------------------------------------------------------------------
\* Records of the store
\* ------------------------------------------------------------------------
\* C26: a tag that was in the store stays in it: after a reconcile the store
\* still has every tag the reconcile before it left there, also those the
\* newly fetched list does not name.
C26_TagNeverRemoved ==
  \A p \in Reconciled :
     frame[p].prev # None => DOMAIN frame[p].prev[1].tags \subseteq DOMAIN tags_

\* C27: every asset of every record of the store has the local_path
\* plugin_repo/<tag_name>/<name>, in records built from the fetched list and
\* in records adopted from tag files.
C27_LocalPathDerived ==
  \A t \in DOMAIN tags_ :
     \A k \in 1..Len(tags_[t].assets) :
        tags_[t].assets[k].local_path =
           repo_dir_ \o tags_[t].tag_name \o Slash \o tags_[t].assets[k].name

\* C28: a processTag call with the empty tag name has returned false at once:
\* it found no record in the store and started nothing.
C28_EmptyTagRejected ==
  \A p \in Calls :
     frame[p].arg = <<>> =>
        /\ frame[p].pc = "done"
        /\ ~frame[p].result
        /\ frame[p].tag_info = EmptyTagInfo

\* ------------------------------------------------------------------------
\* Readers beside a reconcile.  The rebuild of lines 272-284 is taken apart
\* into tags_.clear() and one step per fetched release, so that the map it
\* has built so far is a state a reader could meet.
\* ------------------------------------------------------------------------
\* line 272: tags_.clear()
UpdateClear(p) ==
  /\ ~terminated
  /\ frame[p].pc = "ur_merge"
  /\ tags_' = <<>>
  /\ SetFrame(p, [op |-> "updateRepoInfo", pc |-> "ur_insert", i |-> 1,
                  releases |-> frame[p].releases, body |-> frame[p].body,
                  cause |-> frame[p].cause, tags0 |-> frame[p].tags0])
  /\ UNCHANGED <<plugin_repo_url_, mutex_, tagFiles, assetFiles, scratch, packages,
                 hist>>
  /\ UNCHANGED <<stack, schedVars>>

\* lines 273-288: one iteration of the loop; after the last one the
\* lock_guard releases mutex_ and the call returns true
UpdateInsert(p) ==
  /\ ~terminated
  /\ frame[p].pc = "ur_insert"
  /\ IF frame[p].i <= Len(frame[p].releases)
       THEN /\ tags_' = MergeOne(tags_, frame[p].releases[frame[p].i], tagFiles)
            /\ frame' = [frame EXCEPT ![p].i = @ + 1]
            /\ UNCHANGED <<mutex_, hist>>
       ELSE /\ mutex_' = "free"
            /\ SetFrame(p, [op |-> "updateRepoInfo", pc |-> "done", result |-> TRUE,
                            releases |-> frame[p].releases, body |-> frame[p].body,
                            cause |-> frame[p].cause, prev |-> hist.recon])
            /\ hist' = [hist EXCEPT !.recon = Some([releases |-> frame[p].releases,
                                                    files |-> tagFiles, tags |-> tags_])]
            /\ UNCHANGED tags_
  /\ UNCHANGED <<plugin_repo_url_, tagFiles, assetFiles, scratch, packages>>
  /\ UNCHANGED <<stack, schedVars>>

\* the maps a read may return now: the store itself, or, while a reconcile
\* rebuilds it, the map the reconcile found and the map it will leave
CompleteMaps ==
  LET mid == {q \in AllThreads : frame[q].pc = "ur_insert"} IN
  IF mid = {} THEN {tags_}
  ELSE UNION {{frame[q].tags0,
               MergeTags(frame[q].tags0, frame[q].releases, tagFiles)} : q \in mid}

\* LockFree with the reader's lock_guard left out
LockFree_Unguarded(m) == TRUE

\* std::lock_guard on mutex_ (lines 291, 296, 1076): the reader goes on
\* when no thread holds it
LockFree(m) == m = "free"

\* the tag names GET /tags/{tag} is called with
ReadArgs == {T_v1, T_v_2}

\* getAllTags, lines 290-293: the copy of tags_ made under the lock
GetAllTags(p) ==
  /\ ~terminated
  /\ AtTopLevel(p)
  /\ LockFree(mutex_)
  /\ SetFrame(p, [op |-> "getAllTags", pc |-> "done", result |-> tags_,
                  complete |-> CompleteMaps])
  /\ UNCHANGED <<plugin_repo_url_, tags_, mutex_, tagFiles, assetFiles, scratch,
                 packages, hist>>
  /\ UNCHANGED <<stack, schedVars>>

Lookup(tags, tag_name) ==
  IF tag_name \in DOMAIN tags THEN Some(tags[tag_name]) ELSE None

\* getTagInfo, lines 295-302
GetTagInfo(p, tag_name) ==
  /\ ~terminated
  /\ AtTopLevel(p)
  /\ LockFree(mutex_)
  /\ SetFrame(p, [op |-> "getTagInfo", pc |-> "done",
                  result |-> Lookup(tags_, tag_name),
                  complete |-> {Lookup(m, tag_name) : m \in CompleteMaps}])
  /\ UNCHANGED <<plugin_repo_url_, tags_, mutex_, tagFiles, assetFiles, scratch,
                 packages, hist>>
  /\ UNCHANGED <<stack, schedVars>>

\* the handler of GET /tags, lines 1074-1089: the keys of tags_
TagsHandler(p) ==
  /\ ~terminated
  /\ AtTopLevel(p)
  /\ LockFree(mutex_)
  /\ SetFrame(p, [op |-> "tags", pc |-> "done", result |-> DOMAIN tags_,
                  complete |-> {DOMAIN m : m \in CompleteMaps}])
  /\ UNCHANGED <<plugin_repo_url_, tags_, mutex_, tagFiles, assetFiles, scratch,
                 packages, hist>>
  /\ UNCHANGED <<stack, schedVars>>

Updater == "t1"
Reader == "t2"

UpdaterStep(p) ==
  \/ \E url \in URLs : SetPluginRepoURL(p, url)
  \/ UpdateRepoInfoCall(p)
  \/ UpdateLock(p)
  \/ \E response \in ApiResponses : UpdateFetch(p, response)
  \/ UpdateClear(p)
  \/ UpdateInsert(p)
  \/ Return(p)

ReaderStep(p) ==
  \/ GetAllTags(p)
  \/ \E tag_name \in ReadArgs : GetTagInfo(p, tag_name)
  \/ TagsHandler(p)
  \/ Return(p)

NextRead == UpdaterStep(Updater) \/ ReaderStep(Reader)

\* one thread reconciling, one thread reading
SpecRead == Init /\ [][NextRead]_vars

Reads == {p \in AllThreads : frame[p].op \in {"getAllTags", "getTagInfo", "tags"}}

\* C29: what a reader got is what it would have got from a complete map: the
\* store when no reconcile was rebuilding it, and otherwise the map from
\* before that reconcile or the merged map after it.
C29_ReadersSeeCompleteMap ==
  \A p \in Reads : frame[p].result \in frame[p].complete

\* a reconcile has cleared a store that held tags and has not yet put back
\* all of them, while the reader has a result from an earlier read
C29_Witness ==
  /\ \E q \in AllThreads : /\ frame[q].pc = "ur_insert"
                          /\ frame[q].tags0 # <<>>
                          /\ tags_ \notin CompleteMaps
                          /\ mutex_ = q
  /\ \E p \in Reads : frame[p].op = "getAllTags" /\ frame[p].result # <<>>

\* ------------------------------------------------------------------------
\* Everything at once: the periodic worker, a thread that sets the URL and
\* stops the scan, and a thread of the HTTP server that processes tags and
\* reads the store.  The releases endpoint answers with a failure or with
\* one release, an asset GET with 200; the filesystem does not fail.
\* ------------------------------------------------------------------------
\* the interval of the scan in this configuration, in seconds
ShortInterval == 1

Main == "t1"
Handler == "t2"

AllOutcomes == {"200"}

\* one release with one plugin archive
Feed0 == << Rel(T_v1, "d1", <<AssetJ(A_plugin, "uA")>>) >>

AllResponses == {[kind |-> "neterr"], [kind |-> "ok", body |-> Feed0]}

MainStep(p) ==
  \/ SetPluginRepoURL(p, GoodURL)
  \/ UpdateLock(p)
  \/ \E response \in AllResponses : UpdateFetch(p, response)
  \/ UpdateMerge(p)
  \/ StopPeriodicScan(p)
  \/ StopJoin(p)
  \/ Return(p)

\* the calls a thread is in, once it has made them
EngineStep(p) ==
  \/ ProcessAllTagsCall(p)
  \/ ProcessAllTagsCollect(p)
  \/ ProcessTagDir(p)
  \/ ProcessTagLaunch(p)
  \/ \E k \in 1..2 : DownloadCheck(p, k)
  \/ \E k \in 1..2, outcome \in AllOutcomes : DownloadGet(p, k, outcome)
  \/ \E k \in 1..2 : DownloadOpen(p, k, TRUE)
  \/ \E k \in 1..2 : DownloadClose(p, k)
  \/ ProcessTagCollect(p)
  \/ ProcessTagNext(p, TRUE)
  \/ ProcessTagExtract(p, {})
  \/ \E done \in SUBSET {E_w_dll} : ProcessTagRepackage(p, done, FALSE)
  \/ ProcessTagCleanup(p, TRUE)
  \/ ProcessTagCommit(p)
  \/ ProcessTagSave(p, TRUE)

HandlerStep(p) ==
  \/ ProcessAllTags(p)
  \/ ProcessAllTagsReturn(p)
  \/ GetAllTags(p)
  \/ EngineStep(p)
  \/ Return(p)

ScanStep(w) ==
  \/ WorkerWhile(w)
  \/ WorkerUpdated(w)
  \/ WorkerAllTags(w)
  \/ WorkerAllTagsDone(w)
  \/ WorkerFor(w)
  \/ WorkerSleep(w)
  \/ UpdateLock(w)
  \/ \E response \in AllResponses : UpdateFetch(w, response)
  \/ UpdateMerge(w)
  \/ EngineStep(w)

\* the steps of one thread
AllStep(p) ==
  \/ p = Main /\ MainStep(p)
  \/ p = Handler /\ HandlerStep(p)
  \/ p = FirstWorker /\ ScanStep(p)

NextAll ==
  \/ MainStep(Main)
  \/ HandlerStep(Handler)
  \/ ScanStep(FirstWorker)

\* the manager with an empty plugin_repo/ and the release of Feed0 in its
\* store, its scan restarted with startPeriodicScan(ShortInterval), the
\* worker about to begin the last cycle the bound allows
InitAll ==
  /\ plugin_repo_url_ = GoodURL
  /\ tags_ = MergeTags(<<>>, fetchAllReleases(GoodURL, [kind |-> "ok", body |-> Feed0])[1], NoFiles)
  /\ mutex_ = "free"
  /\ tagFiles = NoFiles
  /\ assetFiles = <<>>
  /\ scratch = <<>>
  /\ packages = {}
  /\ frame = [p \in AllThreads |-> IdleFrame]
  /\ stack = [p \in AllThreads |->
                IF p = FirstWorker THEN <<NewWorker>> ELSE <<>>]
  /\ stop_flag_ = FALSE
  /\ scan_interval_ = ShortInterval
  /\ periodic_thread_ = Some(FirstWorker)
  /\ terminated = FALSE
  /\ hist = [calls |-> 1, recon |-> None,
             scanCalls |-> 1, cycles |-> 1, cyclesDone |-> 1,
             lastAll |-> None, sleepStop |-> None, stopped |-> None]

SpecAll == InitAll /\ [][NextAll]_vars

\* the next step of the thread takes mutex_
WantsMutex(p) ==
  \/ frame[p].pc = "ur_lock"
  \/ frame[p].op = "processTag" /\ frame[p].pc = "commit"
                                /\ CommitWanted(frame[p].processed)
  \/ InAllTags(p) /\ stack[p][1].pc = "loop" /\ frame[p].op = "idle"
  \/ AtWorkerLoop(p, "all")

WaitsForMutex(p) == WantsMutex(p) /\ mutex_ # "free"

\* the thread is in join() on a worker whose thread function has not
\* returned
WaitsForJoin(p) ==
  /\ frame[p].op = "stopPeriodicScan"
  /\ frame[p].pc = "join"
  /\ periodic_thread_ # None
  /\ ~WorkerExited(periodic_thread_[1])

\* C30: the thread that holds mutex_ is not about to take it again and has
\* a step it can take; a thread waiting for mutex_ waits for such a holder;
\* a thread waiting in join() waits for a worker that has a step it can
\* take or that waits for mutex_.  So no thread waits for itself and the
\* waiting threads never wait for each other in a circle (as long as the
\* process has not been aborted).
C30_NoSelfLockNoDeadlock ==
  terminated \/
  /\ \A p \in AllThreads :
        mutex_ = p => /\ ~WantsMutex(p)
                      /\ ~WaitsForJoin(p)
                      /\ ENABLED AllStep(p)
  /\ \A p \in AllThreads : WaitsForMutex(p) => mutex_ \in AllThreads \ {p}
  /\ \A p \in AllThreads :
        WaitsForJoin(p) =>
           LET w == periodic_thread_[1] IN
           /\ w # p
           /\ ENABLED AllStep(w) \/ WaitsForMutex(w)

\* the worker and the handler thread both wait for mutex_, which the main
\* thread holds inside updateRepoInfo
C30_Witness ==
  /\ mutex_ = Main
  /\ WaitsForMutex(FirstWorker)
  /\ WaitsForMutex(Handler)

\* ------------------------------------------------------------------------
\* The phases of one processTag call
\* ------------------------------------------------------------------------
\* the names of seq that are in the set names, in the order of seq
Among(seq, names) == SelectSeq(seq, LAMBDA n : n \in names)

IsPrefix(a, b) == Len(a) <= Len(b) /\ a = SubSeq(b, 1, Len(a))

\* the names of the assets whose download succeeded
Downloaded(p) ==
  {frame[p].successful_downloads[k].name :
     k \in 1..Len(frame[p].successful_downloads)}

\* C31: in a processTag call nothing is extracted or repackaged while a
\* download task of the call is still to end; after that the assets whose
\* download succeeded are given to extractAsset one at a time, in the order
\* of the tag's asset list (the asset in hand is the i-th of them and the
\* only one not yet cleaned up), all of them when the call has ended, and
\* repackagePlugins runs at most once per extracted asset, in that order;
\* the order in which the download tasks ended plays no part.
C31_ExtractAfterDownloadsInListOrder ==
  \A p \in Calls :
     LET call == frame[p]
         inList == Among(AssetNames(call.tag_info.assets), Downloaded(p))
     IN  /\ call.pc \in {"tagdir", "launch", "wait"}
              => call.extracted = <<>> /\ call.repack_calls = 0
         /\ call.extracted # <<>> => Len(call.completion) = call.launched
         /\ IsPrefix(call.extracted, inList)
         /\ Among(call.extracted,
                  {call.repackaged[k] : k \in 1..Len(call.repackaged)})
              = call.repackaged
         /\ call.repack_calls <= Len(call.extracted)
         /\ call.pc \in {"repackage", "cleanup"} => Len(call.extracted) = call.i
         /\ call.pc \in {"loop", "extract", "commit", "save"}
              => Len(call.extracted) = call.i - 1
         /\ (call.pc = "done" /\ call.launched > 0 /\ ~call.exception)
              => call.extracted = inList

C31_Witness ==
  \E p \in Finished :
     /\ frame[p].completion = <<2, 1>>
     /\ Len(frame[p].extracted) = 2
     /\ frame[p].extracted =
          Among(AssetNames(frame[p].tag_info.assets), Downloaded(p))
     /\ Len(frame[p].repackaged) = 2

\* ------------------------------------------------------------------------
\* The scan cycle
\* ------------------------------------------------------------------------
\* C32: a worker begins its first cycle without sleeping first; a worker
\* inside processAllTags has this cycle's updateRepoInfo behind it; and a
\* worker that has reached the sleep loop has ended a cycle in which
\* processAllTags ran after updateRepoInfo.
C32_CycleReconcilesThenProcesses ==
  \A w \in Workers :
     IsWorker(w) =>
       /\ hist.cycles = 0 => WorkerRec(w).pc \in {"while", "exited"}
                                /\ WorkerRec(w).i = 0
       /\ InAllTags(w) => WorkerRec(w).pc = "all" /\ hist.recon # None
       /\ WorkerRec(w).pc \in {"for", "sleep"} => hist.lastAll # None

\* C33: when a processTag call is about to call extractAsset, the scratch
\* directory of its tag exists and holds no file.
C33_ScratchFreshAtExtraction ==
  \A p \in Calls :
     frame[p].pc = "extract" =>
       /\ ExtractDir(frame[p].tag) \in DOMAIN scratch
       /\ scratch[ExtractDir(frame[p].tag)] = {}

\* ------------------------------------------------------------------------
\* extractAsset
\* ------------------------------------------------------------------------
\* the processTag calls whose extractAsset has opened its archive and whose
\* scratch directory has not been cleaned up since
Extractions ==
  {p \in Calls : /\ frame[p].pc \in {"repackage", "cleanup"}
                 /\ frame[p].extraction # None
                 /\ ExtractDir(frame[p].tag) \in DOMAIN scratch}

\* the n-th entry's output path is within the ceiling
Fits(p, entries, n) ==
  Len(ExtractDir(frame[p].tag)) + 1 + Len(sanitizeFilename(entries[n]))
    <= PathCeiling

\* C34: once extractAsset has opened the archive, it returns false exactly
\* when the stat or the extraction of some entry failed; every entry that
\* did not fail and whose output path is within the ceiling is in the
\* destination under its sanitized name, whatever happened to the others;
\* an entry over the ceiling is not written, and an archive in which entries
\* were only skipped for their length yields true; the files the directory
\* held before are still there.
C34_ExtractIsBestEffort ==
  \A p \in Extractions :
     LET e == frame[p].extraction[1]
         entries == ArchiveEntries(e.body)
         now == scratch[ExtractDir(frame[p].tag)]
     IN  /\ e.success <=> e.failed = {}
         /\ \A n \in 1..Len(entries) :
               (n \notin e.failed /\ Fits(p, entries, n))
                 => sanitizeFilename(entries[n]) \in now
         /\ \A n \in 1..Len(entries) :
               ~Fits(p, entries, n)
                 => sanitizeFilename(entries[n]) \notin now \ e.before
         /\ e.before \subseteq now

\* one entry failed, another was written, a third was skipped for its length
C34_Witness ==
  \E p \in Extractions :
     LET e == frame[p].extraction[1]
         entries == ArchiveEntries(e.body)
         now == scratch[ExtractDir(frame[p].tag)]
     IN  /\ ~e.success
         /\ \E n \in 1..Len(entries) : n \in e.failed
         /\ \E n \in 1..Len(entries) :
               n \notin e.failed /\ sanitizeFilename(entries[n]) \in now \ e.before
         /\ \E n \in 1..Len(entries) : n \notin e.failed /\ ~Fits(p, entries, n)

\* no entry failed, one was skipped for its length, the result is true
SkippedOnly ==
  \E p \in Extractions :
     LET e == frame[p].extraction[1]
         entries == ArchiveEntries(e.body)
     IN  /\ e.success
         /\ \E n \in 1..Len(entries) : ~Fits(p, entries, n)

\* ------------------------------------------------------------------------
\* PluginManager: the self-update check (plugin_manager.cpp).  Its files
\* are kept in assetFiles: the version file under version_file_, the
\* downloaded release assets under their local_path.
\* ------------------------------------------------------------------------
version_file_ ==
  <<"l","a","t","e","s","t","_","v","e","r","s","i","o","n",".","t","x","t">>

\* lines 91-93: the lambda strip_v
strip_v(tag) == IF Len(tag) > 0 /\ tag[1] = "v" THEN Tail(tag) ELSE tag

\* lines 86-99: no recorded version, or the tags differ
isNewerVersion(new_tag, current_tag) ==
  IF current_tag = <<>> THEN TRUE
  ELSE strip_v(new_tag) # strip_v(current_tag)

\* lines 53-62: the first line of the version file, "" without a file
readVersionFile(files) ==
  IF version_file_ \in DOMAIN files THEN files[version_file_] ELSE <<>>

\* lines 70-80: the file is rewritten when it can be opened
writeVersionFile(files, version, opened) ==
  IF opened THEN Put(files, version_file_, version) ELSE files

V_7 == <<"v","0",".","1",".","0",".","7">>
V_8 == <<"v","0",".","1",".","0",".","8">>
V_9 == <<"v","0",".","1",".","0",".","9">>
V_8bare == <<"0",".","1",".","0",".","8">>

U_windows == <<"u","/","w","/","p",".","z","i","p">>
U_linux == <<"u","/","l","/","p",".","z","i","p">>

\* what fetchLatestRelease returns (lines 492-544): nothing, or a release
\* with at least one of the two target assets
LatestReleases ==
  {None} \cup
  {Some([tag_name |-> t, assets |-> a]) :
     t \in {V_7, V_8, V_9, V_8bare},
     a \in { <<[local_path |-> U_windows, download_url |-> "uW"]>>,
             <<[local_path |-> U_windows, download_url |-> "uW"],
               [local_path |-> U_linux, download_url |-> "uX"]>> }}

\* lines 639-644: fetchLatestRelease, then readVersionFile
PeriodicFetchLatestRelease(p, release_opt) ==
  /\ ~terminated
  /\ AtTopLevel(p)
  /\ hist.calls < MaxCalls
  /\ hist' = [hist EXCEPT !.calls = @ + 1]
  /\ SetFrame(p, [op |-> "periodicFetchLatestRelease",
                  pc |-> IF release_opt = None THEN "done" ELSE "compare",
                  release |-> release_opt,
                  current_ver |-> readVersionFile(assetFiles),
                  i |-> 1, all_downloaded |-> TRUE,
                  \* history: downloadReleaseAsset calls made, version
                  \* file written
                  downloads |-> 0, wrote |-> FALSE])
  /\ UNCHANGED <<storeVars, stack, schedVars>>

\* line 646: isNewerVersion(release.tag_name, current_ver); the else branch
\* (lines 664-700) touches neither the assets nor the version file
CompareVersion(p) ==
  /\ ~terminated
  /\ frame[p].op = "periodicFetchLatestRelease"
  /\ frame[p].pc = "compare"
  /\ frame' = [frame EXCEPT ![p].pc =
                 IF isNewerVersion(frame[p].release[1].tag_name, frame[p].current_ver)
                   THEN "download" ELSE "done"]
  /\ UNCHANGED <<storeVars, stack, schedVars, hist>>

\* lines 650-655: downloadReleaseAsset for the next asset; ok says whether
\* one of its attempts got the body and wrote the file
DownloadReleaseAsset(p, ok) ==
  /\ ~terminated
  /\ frame[p].op = "periodicFetchLatestRelease"
  /\ frame[p].pc = "download"
  /\ LET call == frame[p]
         assets == call.release[1].assets
         asset == assets[call.i]
         all_downloaded == call.all_downloaded /\ ok
     IN  /\ assetFiles' = IF ok THEN Put(assetFiles, asset.local_path, asset.download_url)
                                ELSE assetFiles
         /\ frame' = [frame EXCEPT
                        ![p].i = @ + 1,
                        ![p].all_downloaded = all_downloaded,
                        ![p].downloads = @ + 1,
                        ![p].pc = IF call.i < Len(assets) THEN "download"
                                  ELSE IF all_downloaded THEN "write"
                                  ELSE "done"]
  /\ UNCHANGED <<plugin_repo_url_, tags_, mutex_, tagFiles, scratch, packages>>
  /\ UNCHANGED <<stack, schedVars, hist>>

\* lines 656-662: writeVersionFile(release.tag_name)
WriteVersionFile(p, opened) ==
  /\ ~terminated
  /\ frame[p].op = "periodicFetchLatestRelease"
  /\ frame[p].pc = "write"
  /\ assetFiles' = writeVersionFile(assetFiles, frame[p].release[1].tag_name, opened)
  /\ frame' = [frame EXCEPT ![p].pc = "done", ![p].wrote = opened]
  /\ UNCHANGED <<plugin_repo_url_, tags_, mutex_, tagFiles, scratch, packages>>
  /\ UNCHANGED <<stack, schedVars, hist>>

\* the thread of startPeriodicThread (lines 627-637)
SelfThread == "t2"

SelfStep(p) ==
  \/ \E release_opt \in LatestReleases : PeriodicFetchLatestRelease(p, release_opt)
  \/ CompareVersion(p)
  \/ \E ok \in BOOLEAN : DownloadReleaseAsset(p, ok)
  \/ \E opened \in BOOLEAN : WriteVersionFile(p, opened)
  \/ Return(p)

NextSelf == SelfStep(SelfThread)

\* the manager as constructed, with or without a version file
InitSelf ==
  /\ plugin_repo_url_ = ""
  /\ tags_ = <<>>
  /\ mutex_ = "free"
  /\ tagFiles = NoFiles
  /\ assetFiles \in {<<>>, Put(<<>>, version_file_, V_8)}
  /\ scratch = <<>>
  /\ packages = {}
  /\ frame = [p \in AllThreads |-> IdleFrame]
  /\ stack = [p \in AllThreads |->
                IF p = FirstWorker THEN <<NewWorker>> ELSE <<>>]
  /\ stop_flag_ = FALSE
  /\ scan_interval_ = ConstructorInterval
  /\ periodic_thread_ = Some(FirstWorker)
  /\ terminated = FALSE
  /\ hist = [calls |-> 0, recon |-> None,
             scanCalls |-> 0, cycles |-> 0, cyclesDone |-> 0, lastAll |-> None,
             sleepStop |-> None, stopped |-> None]

SpecSelf == InitSelf /\ [][NextSelf]_vars

\* the numbers of a version tag, "v" and the dots left out
VersionDigits(tag) ==
  LET digits == SelectSeq(tag, LAMBDA c : c \in DigitChars) IN
  [k \in 1..Len(digits) |-> CharCode(digits[k]) - CharCode("0")]

\* a precedes b, for tags with the same number of one-digit components
VersionLess(a, b) ==
  \E k \in 1..Len(VersionDigits(a)) :
     /\ VersionDigits(a)[k] < VersionDigits(b)[k]
     /\ \A j \in 1..(k - 1) : VersionDigits(a)[j] = VersionDigits(b)[j]

SelfChecks == {p \in AllThreads : frame[p].op = "periodicFetchLatestRelease"
                                    /\ frame[p].release # None}

\* C35: a self-update check that fetched a release whose tag is not newer
\* than the version recorded in the version file (equal to it, or older)
\* has called downloadReleaseAsset for no asset and has not written the
\* version file, which still holds the recorded version.
C35_SelfUpdateOnlyWhenNewer ==
  \A p \in SelfChecks :
     LET call == frame[p] IN
     (call.current_ver # <<>>
        /\ ~VersionLess(call.current_ver, call.release[1].tag_name))
     => /\ call.downloads = 0
        /\ ~call.wrote
        /\ readVersionFile(assetFiles) = call.current_ver

\* ------------------------------------------------------------------------
\* A processTag call of one thread beside an updateRepoInfo call of
\* another, after a reconcile that fetched the releases of Feed1.  The
\* releases endpoint now lists v1 or no longer lists it; an asset GET
\* answers 200 or 404; the filesystem does not fail.
\* ------------------------------------------------------------------------
RaceResponses == {[kind |-> "ok", body |-> Feed1], [kind |-> "ok", body |-> Feed2]}

ReconcileStep(p) ==
  \/ UpdateRepoInfoCall(p)
  \/ UpdateLock(p)
  \/ \E response \in RaceResponses : UpdateFetch(p, response)
  \/ UpdateMerge(p)
  \/ Return(p)

NextRace == ConcStep(Caller) \/ ReconcileStep(Reader)

SpecRace == InitConc /\ [][NextRace]_vars

\* C36: once an updateRepoInfo has rebuilt the store, every key of the
\* store is the tag name of a release that reconcile fetched, until the
\* next reconcile rebuilds it: no processTag commit brings back a tag the
\* reconcile dropped.
C36_CommitNeverReinsertsDroppedTag ==
  hist.recon # None =>
    DOMAIN tags_ \subseteq
      {hist.recon[1].releases[k].tag_name : k \in 1..Len(hist.recon[1].releases)}

\* the processTag calls that are between the copy-out and the commit: tag
\* directory, downloads, extraction, repackaging, cleanup
InPipeline ==
  {p \in Calls : frame[p].pc \in {"tagdir", "launch", "wait", "loop", "extract",
                                  "repackage", "cleanup"}}

\* C37: no two processTag calls are in their download, extraction and
\* repackaging phase for the same tag at the same time.
C37_OnePipelinePerTag ==
  \A p, q \in InPipeline : frame[p].tag = frame[q].tag => p = q

\* C38: every entry of the store is filed under the tag name its record
\* carries.
C38_KeyIsTagName ==
  \A t \in DOMAIN tags_ : tags_[t].tag_name = t

\* the releases of a response of the API that carry a tag name
Named(body) == {k \in 1..Len(body) : body[k].tag_name # <<>>}

\* C39: fetchAllReleases returns one record per release of the response
\* that carries a non-empty tag_name and none for the others, and after the
\* reconcile every key of the store is the cleaned tag name of such a
\* release.
C39_NamelessReleaseSkipped ==
  \A p \in Fetched :
     /\ Len(frame[p].releases) = Cardinality(Named(frame[p].body))
     /\ (frame[p].pc = "done" /\ frame[p].result)
          => \A t \in DOMAIN tags_ :
                \E k \in Named(frame[p].body) :
                   sanitizeFilename(frame[p].body[k].tag_name) = t

\* ------------------------------------------------------------------------
\* Termination: the worker thread and a thread of the HTTP server that
\* calls processTag and stopPeriodicScan, each scheduled again and again
\* ------------------------------------------------------------------------
\* a download answered 503 is tried again, up to max_retries attempts
LiveOutcomes == {"503"}

LiveHandlerStep(p) ==
  \/ ProcessTag(p, T_v1)
  \/ EngineStep(p)
  \/ \E outcome \in LiveOutcomes : DownloadGet(p, 1, outcome)
  \/ StopPeriodicScan(p)
  \/ StopJoin(p)
  \/ Return(p)

LiveScanStep(w) ==
  \/ ScanStep(w)
  \/ \E outcome \in LiveOutcomes : DownloadGet(w, 1, outcome)

NextLive ==
  \/ LiveHandlerStep(Handler)
  \/ LiveScanStep(FirstWorker)

\* the state of InitAll, with one processTag call left to the handler
InitLive ==
  /\ plugin_repo_url_ = GoodURL
  /\ tags_ = MergeTags(<<>>, fetchAllReleases(GoodURL, [kind |-> "ok", body |-> Feed0])[1], NoFiles)
  /\ mutex_ = "free"
  /\ tagFiles = NoFiles
  /\ assetFiles = <<>>
  /\ scratch = <<>>
  /\ packages = {}
  /\ frame = [p \in AllThreads |-> IdleFrame]
  /\ stack = [p \in AllThreads |->
                IF p = FirstWorker THEN <<NewWorker>> ELSE <<>>]
  /\ stop_flag_ = FALSE
  /\ scan_interval_ = ShortInterval
  /\ periodic_thread_ = Some(FirstWorker)
  /\ terminated = FALSE
  /\ hist = [calls |-> MaxCalls - 1, recon |-> None,
             scanCalls |-> 1, cycles |-> 1, cyclesDone |-> 1,
             lastAll |-> None, sleepStop |-> None, stopped |-> None]

\* every thread that can take a step is scheduled to take one: the
\* operating system starves no runnable thread, and every HTTP request and
\* filesystem call returns
SpecLive ==
  /\ InitLive
  /\ [][NextLive]_vars
  /\ WF_vars(LiveHandlerStep(Handler))
  /\ WF_vars(LiveScanStep(FirstWorker))

\* p is inside a processTag call that has not finished
InProcessTag(p) == frame[p].op = "processTag" /\ frame[p].pc # "done"

\* the worker is inside periodicScanTask
InCycle(w) == WorkerRunning(w) /\ WorkerRec(w).pc \in {"update", "all"}

\* the stopPeriodicScan call of p has returned
StopReturned(p) == frame[p].op = "stopPeriodicScan" /\ frame[p].pc = "done"

====
